---------------------------- MODULE Spec2Model ----------------------------
(***************************************************************************)
(* Verification model of the personal finance tracker: the derived-metrics *)
(* computations (period summary, category breakdown, budget utilisation,   *)
(* goal progress, 30-day time series) and the goal store they read.        *)
(*                                                                         *)
(* Numbers.  Every amount in the source is a JavaScript `number`, an IEEE   *)
(* 754 binary64 value: each arithmetic result is the exact result rounded  *)
(* to 53 significant bits, to the nearest representable value and to the   *)
(* even one of two nearest.  A number is modelled exactly, as a record     *)
(* [cls, sign, bits]: for cls = "num" its magnitude is the sum of 2^i over *)
(* the exponents i in the set `bits` (zero is the empty set); cls = "inf"  *)
(* and cls = "nan" are the non-finite results of a division by zero.  The  *)
(* exponent range of binary64 (overflow above 2^1024, subnormals) is far   *)
(* from any amount of the model and is not modelled.                       *)
(*                                                                         *)
(* Dates.  A 'yyyy-MM-dd' string is modelled as the integer yyyymmdd and a *)
(* 'yyyy-MM' string as yyyymm: on zero-padded dates of four-digit years    *)
(* the string order is the integer order and "starts with yyyy-MM" is      *)
(* division by 100.  A Date object is an instant, a number of hours.       *)
(***************************************************************************)
EXTENDS Integers, Sequences, FiniteSets, Bags, TLC

\* The significand width of a JavaScript number.
MantissaBits == 53

(* ------------------------------ numbers -------------------------------- *)

Max(S) == CHOOSE i \in S : \A j \in S : j <= i

Min(S) == CHOOSE i \in S : \A j \in S : i <= j

\* Exact arithmetic on magnitudes, each a finite set of binary exponents.
\* A + B: place i receives a carry when the nearest place below it that holds
\* a bit of both is followed, up to i, only by places holding a bit of either.
MagAdd(A, B) ==
  LET U == A \cup B
      Carry(i) == LET J == {j \in A \cap B : j < i}
                  IN  J # {} /\ \A k \in (Max(J) + 1) .. (i - 1) : k \in U
  IN  IF U = {} THEN {}
      ELSE {i \in Min(U) .. (Max(U) + 1) : ((i \in A) # (i \in B)) # Carry(i)}

\* A - B for A >= B: place i lends when, of the places below it where A and B
\* differ, the highest holds a bit of B.
MagSub(A, B) ==
  LET U == A \cup B
      Borrow(i) == LET D == {k \in U : k < i /\ ((k \in A) # (k \in B))}
                   IN  D # {} /\ Max(D) \in B
  IN  IF U = {} THEN {}
      ELSE {i \in Min(U) .. Max(U) : ((i \in A) # (i \in B)) # Borrow(i)}

MagLess(A, B) == A # B /\ Max((A \ B) \cup (B \ A)) \in B

Shift(A, k) == {i + k : i \in A}

RECURSIVE MagMul(_, _)
MagMul(A, B) ==
  IF B = {} THEN {}
  ELSE LET k == CHOOSE i \in B : TRUE IN MagAdd(MagMul(A, B \ {k}), Shift(A, k))

\* The magnitude S rounded to MantissaBits significant bits: to the nearest
\* representable magnitude, and to the even one of two nearest.
RoundMag(S) ==
  IF S = {} THEN {}
  ELSE LET cut == Max(S) - (MantissaBits - 1)
           kept == {i \in S : i >= cut}
           half == (cut - 1) \in S
           sticky == \E i \in S : i < cut - 1
       IN  IF half /\ (sticky \/ cut \in kept) THEN MagAdd(kept, {cut}) ELSE kept

\* The quotient A / B developed bit by bit from exponent k down over n places;
\* a remainder left at the end is recorded as one bit below the last place.
RECURSIVE DivBits(_, _, _, _, _)
DivBits(R, B, k, n, Q) ==
  IF n = 0 THEN (IF R = {} THEN Q ELSE Q \cup {k})
  ELSE IF MagLess(R, Shift(B, k)) THEN DivBits(R, B, k - 1, n - 1, Q)
  ELSE DivBits(MagSub(R, Shift(B, k)), B, k - 1, n - 1, Q \cup {k})

Num(sign, S) == [cls |-> "num", sign |-> (IF S = {} THEN 1 ELSE sign), bits |-> S]

NaN == [cls |-> "nan", sign |-> 1, bits |-> {}]

Infinity(sign) == [cls |-> "inf", sign |-> sign, bits |-> {}]

RECURSIVE BitsOf(_, _)
BitsOf(n, k) ==
  IF n = 0 THEN {}
  ELSE (IF n % 2 = 1 THEN {k} ELSE {}) \cup BitsOf(n \div 2, k + 1)

\* The number whose value is exactly the integer n.
Exactly(n) == Num(IF n < 0 THEN -1 ELSE 1, BitsOf(IF n < 0 THEN -n ELSE n, 0))

\* A number literal of the source with an integer value.
Lit(n) == Num(IF n < 0 THEN -1 ELSE 1, RoundMag(BitsOf(IF n < 0 THEN -n ELSE n, 0)))

IsNum(x) == x.cls = "num"

Neg(x) == IF x.cls = "nan" \/ (x.cls = "num" /\ x.bits = {}) THEN x
          ELSE [x EXCEPT !.sign = -x.sign]

\* The exact sum of two finite numbers, unrounded.
ExactSum(x, y) ==
  IF x.sign = y.sign THEN Num(x.sign, MagAdd(x.bits, y.bits))
  ELSE IF MagLess(x.bits, y.bits) THEN Num(y.sign, MagSub(y.bits, x.bits))
  ELSE Num(x.sign, MagSub(x.bits, y.bits))

\* x + y
FAdd(x, y) ==
  IF x.cls = "nan" \/ y.cls = "nan" THEN NaN
  ELSE IF x.cls = "inf" /\ y.cls = "inf" THEN (IF x.sign = y.sign THEN x ELSE NaN)
  ELSE IF x.cls = "inf" THEN x
  ELSE IF y.cls = "inf" THEN y
  ELSE LET z == ExactSum(x, y) IN Num(z.sign, RoundMag(z.bits))

\* x - y
FSub(x, y) == FAdd(x, Neg(y))

\* x * y
FMul(x, y) ==
  IF x.cls = "nan" \/ y.cls = "nan" THEN NaN
  ELSE IF x.cls = "inf" \/ y.cls = "inf"
       THEN (IF (x.cls = "num" /\ x.bits = {}) \/ (y.cls = "num" /\ y.bits = {})
             THEN NaN ELSE Infinity(x.sign * y.sign))
  ELSE Num(x.sign * y.sign,
           RoundMag(IF Cardinality(x.bits) < Cardinality(y.bits)
                    THEN MagMul(y.bits, x.bits) ELSE MagMul(x.bits, y.bits)))

\* x / y: MantissaBits + 3 places of the quotient and the remainder's bit
\* decide the rounding.
FDiv(x, y) ==
  IF x.cls = "nan" \/ y.cls = "nan" THEN NaN
  ELSE IF x.cls = "inf" THEN (IF y.cls = "inf" THEN NaN ELSE Infinity(x.sign * y.sign))
  ELSE IF y.cls = "inf" THEN Num(1, {})
  ELSE IF y.bits = {} THEN (IF x.bits = {} THEN NaN ELSE Infinity(x.sign * y.sign))
  ELSE IF x.bits = {} THEN Num(1, {})
  ELSE Num(x.sign * y.sign,
           RoundMag(DivBits(x.bits, y.bits, Max(x.bits) - Max(y.bits),
                            MantissaBits + 3, {})))

\* x < y (false when either side is NaN)
FLess(x, y) ==
  IF x.cls = "nan" \/ y.cls = "nan" THEN FALSE
  ELSE IF x.cls = "inf" THEN x.sign < 0 /\ ~(y.cls = "inf" /\ y.sign < 0)
  ELSE IF y.cls = "inf" THEN y.sign > 0
  ELSE IF x.sign # y.sign THEN x.sign < y.sign
  ELSE IF x.sign > 0 THEN MagLess(x.bits, y.bits) ELSE MagLess(y.bits, x.bits)

\* x > y, x >= y, x <= y
FGreater(x, y) == FLess(y, x)

FGeq(x, y) == x.cls # "nan" /\ y.cls # "nan" /\ ~FLess(x, y)

FLeq(x, y) == FGeq(y, x)

\* Math.max(x, y) and Math.min(x, y)
MathMax(x, y) ==
  IF x.cls = "nan" \/ y.cls = "nan" THEN NaN ELSE IF FLess(x, y) THEN y ELSE x

MathMin(x, y) ==
  IF x.cls = "nan" \/ y.cls = "nan" THEN NaN ELSE IF FLess(y, x) THEN y ELSE x

\* parseFloat of a decimal string with two fraction digits, given in
\* hundredths: the number nearest to hundredths / 100.
parseFloat(hundredths) == FDiv(Lit(hundredths), Lit(100))

(* ------------------------------- dates --------------------------------- *)

\* An instant (a Date object) is a number of hours since 2024-01-01T00:00Z;
\* tz is the local zone's offset from UTC in hours (a fixed-offset zone).
IsLeapYear(y) == (y % 4 = 0 /\ y % 100 # 0) \/ y % 400 = 0

DaysInMonth(y, m) ==
  IF m = 2 THEN (IF IsLeapYear(y) THEN 29 ELSE 28)
  ELSE IF m \in {4, 6, 9, 11} THEN 30 ELSE 31

DaysInYear(y) == IF IsLeapYear(y) THEN 366 ELSE 365

RECURSIVE MonthDayOf(_, _, _)
MonthDayOf(y, m, n) ==
  IF n < DaysInMonth(y, m) THEN y * 10000 + m * 100 + (n + 1)
  ELSE MonthDayOf(y, m + 1, n - DaysInMonth(y, m))

\* The calendar day, as yyyymmdd, of day number n counted from 2024-01-01.
RECURSIVE CivilFrom(_, _)
CivilFrom(y, n) ==
  IF n < 0 THEN CivilFrom(y - 1, n + DaysInYear(y - 1))
  ELSE IF n >= DaysInYear(y) THEN CivilFrom(y + 1, n - DaysInYear(y))
  ELSE MonthDayOf(y, 1, n)

\* format(date, 'yyyy-MM-dd'): the local calendar day of an instant.
FormatDay(date, zone) == CivilFrom(2024, (date + zone) \div 24)

\* format(date, 'yyyy-MM'): the local calendar month of an instant.
FormatMonth(date, zone) == FormatDay(date, zone) \div 100

\* date.toISOString().slice(0, 7): the UTC calendar month of an instant.
ISOMonth(date) == CivilFrom(2024, date \div 24) \div 100

\* dateStr.startsWith(monthStr) for a 'yyyy-MM-dd' and a 'yyyy-MM' string.
StartsWith(dateStr, monthStr) == dateStr \div 100 = monthStr

\* date-fns subDays(date, n): the same local wall-clock time n days earlier.
subDays(date, n) == date - 24 * n

\* date-fns startOfDay(date): local midnight of the instant's local day.
startOfDay(date, zone) == ((date + zone) \div 24) * 24 - zone

(* -------------------------------- state -------------------------------- *)

VARIABLES
  now,           \* the instant new Date() returns
  tz,            \* the browser's zone offset
  transactions,  \* FinanceTracker's transactions state, the charts' prop
  summary,       \* what calculateSummary returned at the last render
  budgets,       \* BudgetManager's budgets state
  budgetAnalysis,\* BudgetManager's budgetAnalysis memo
  pc,            \* "props": inputs set, nothing rendered; "rendered"
  dbGoals,       \* the rows of table financial_goals, in order of created_at
  nextId,        \* the id gen_random_uuid() gives the next row
  goals,         \* FinancialGoals' goals state, one per open view
  inflight,      \* the handlers of the open page waiting at an await
  clicks,        \* the number of clicks on the open page so far
  progress,      \* getProgressPercentage of each rendered goal
  deadlines,     \* the deadline label of each rendered goal
  adjustBy,      \* the amount of the adjustment that is applied and taken back
  dbBudgets,     \* the rows of table budgets, in order of created_at
  toast,         \* the toast BudgetManager showed last, and the error behind it
  tableRows,     \* the rows of the tables under row-level security, with their user_id
  answer,        \* the last request to these tables: who sent it and what it returned
  categoryChart, \* ExpenseChart's dataWithPercentages at the last render
  trendChart,    \* TrendChart's chartData memo
  page,          \* a component with a form and a list: its state, its toasts, the store's log
  tracking,      \* useSessionTracking: the user, the two refs, the rows of user_sessions
  index          \* the Index page: user, role, showAdmin and what is rendered

trackerVars == <<transactions, summary, budgets, budgetAnalysis>>

goalVars == <<dbGoals, nextId, goals, inflight, clicks, progress, deadlines, adjustBy>>

chartVars == <<categoryChart, trendChart>>

storeVars == <<dbBudgets, toast>>

policyVars == <<tableRows, answer>>

appVars == <<page, tracking, index>>

vars == <<now, tz, pc, trackerVars, goalVars, chartVars, storeVars, policyVars, appVars>>

\* No chart is rendered; no form page, session hook or Index page is mounted.
NoCharts ==
  /\ categoryChart = <<>>
  /\ trendChart = <<>>
  /\ page = <<>>
  /\ tracking = <<>>
  /\ index = <<>>

\* A toast, and the error the handler caught: the store's "unique" or "check"
\* violation, or none.
Toast(text, error) == [text |-> text, error |-> error]

\* The budgets page is not open, and no user is told apart from another.
NoBudgetStore ==
  /\ tableRows = <<>>
  /\ answer = <<>>
  /\ dbBudgets = <<>>
  /\ toast = Toast("", "")

\* The goals page is not open.
NoGoals ==
  /\ dbGoals = <<>>
  /\ nextId = 1
  /\ goals = <<>>
  /\ inflight = EmptyBag
  /\ clicks = 0
  /\ progress = <<>>
  /\ deadlines = <<>>
  /\ adjustBy = Lit(0)

(* --------------------------- period summary ---------------------------- *)

\* array.filter(keep) is SelectSeq(array, keep).

\* array.reduce((sum, t) => sum + t.amount, 0)
RECURSIVE SumAmounts(_, _)
SumAmounts(list, sum) ==
  IF list = <<>> THEN sum
  ELSE SumAmounts(Tail(list), FAdd(sum, Head(list).amount))

calculateSummary(txs, date, zone) ==
  LET currentMonth == FormatMonth(date, zone)
      InMonth(t) == StartsWith(t.date, currentMonth)
      IsIncome(t) == t.type = "income"
      IsExpense(t) == t.type = "expense"
      monthTransactions == SelectSeq(txs, InMonth)
      income == SumAmounts(SelectSeq(monthTransactions, IsIncome), Lit(0))
      expenses == SumAmounts(SelectSeq(monthTransactions, IsExpense), Lit(0))
  IN  [income |-> income, expenses |-> expenses, balance |-> FSub(income, expenses)]

(* -------------------------- budget utilisation ------------------------- *)

\* A faulty analysis whose period excludes end_date itself.
AnalyseBudgetOpenEnd(budget, txs) ==
  LET Counts(t) == /\ t.type = "expense"
                   /\ t.category = budget.category
                   /\ t.date >= budget.start_date
                   /\ t.date < budget.end_date
      spent == SumAmounts(SelectSeq(txs, Counts), Lit(0))
      percentage == FMul(FDiv(spent, budget.limit_amount), Lit(100))
      remaining == FSub(budget.limit_amount, spent)
      isOverBudget == FGreater(spent, budget.limit_amount)
      isNearLimit == FGreater(percentage, Lit(80)) /\ ~isOverBudget
  IN  [budget |-> budget, spent |-> spent, remaining |-> remaining,
       percentage |-> percentage, isOverBudget |-> isOverBudget,
       isNearLimit |-> isNearLimit]

\* A faulty analysis that reports a budget spent to exactly its limit as
\* exceeded.
AnalyseBudgetOverAtLimit(budget, txs) ==
  LET Counts(t) == /\ t.type = "expense"
                   /\ t.category = budget.category
                   /\ t.date >= budget.start_date
                   /\ t.date <= budget.end_date
      spent == SumAmounts(SelectSeq(txs, Counts), Lit(0))
      percentage == FMul(FDiv(spent, budget.limit_amount), Lit(100))
      remaining == FSub(budget.limit_amount, spent)
      isOverBudget == FGeq(spent, budget.limit_amount)
      isNearLimit == FGreater(percentage, Lit(80)) /\ ~isOverBudget
  IN  [budget |-> budget, spent |-> spent, remaining |-> remaining,
       percentage |-> percentage, isOverBudget |-> isOverBudget,
       isNearLimit |-> isNearLimit]

\* A faulty analysis that counts the expenses dated after the budget's
\* end_date too.
AnalyseBudgetNoEnd(budget, txs) ==
  LET Counts(t) == /\ t.type = "expense"
                   /\ t.category = budget.category
                   /\ t.date >= budget.start_date
      spent == SumAmounts(SelectSeq(txs, Counts), Lit(0))
      percentage == FMul(FDiv(spent, budget.limit_amount), Lit(100))
      remaining == FSub(budget.limit_amount, spent)
      isOverBudget == FGreater(spent, budget.limit_amount)
      isNearLimit == FGreater(percentage, Lit(80)) /\ ~isOverBudget
  IN  [budget |-> budget, spent |-> spent, remaining |-> remaining,
       percentage |-> percentage, isOverBudget |-> isOverBudget,
       isNearLimit |-> isNearLimit]

\* One element of budgets.map(budget => ...) in BudgetManager.budgetAnalysis.
AnalyseBudget(budget, txs) ==
  LET Counts(t) == /\ t.type = "expense"
                   /\ t.category = budget.category
                   /\ t.date >= budget.start_date
                   /\ t.date <= budget.end_date
      spent == SumAmounts(SelectSeq(txs, Counts), Lit(0))
      percentage == FMul(FDiv(spent, budget.limit_amount), Lit(100))
      remaining == FSub(budget.limit_amount, spent)
      isOverBudget == FGreater(spent, budget.limit_amount)
      isNearLimit == FGreater(percentage, Lit(80)) /\ ~isOverBudget
  IN  [budget |-> budget, spent |-> spent, remaining |-> remaining,
       percentage |-> percentage, isOverBudget |-> isOverBudget,
       isNearLimit |-> isNearLimit]

ComputeBudgetAnalysis(bs, txs) == [i \in 1 .. Len(bs) |-> AnalyseBudget(bs[i], txs)]

(* ------------------------------- inputs -------------------------------- *)

MaxTx == 3

\* The instant of hour h (UTC) of the calendar day y-m-d.
RECURSIVE DaysBefore(_, _, _)
DaysBefore(y, m, d) ==
  IF m > 1 THEN DaysInMonth(y, m - 1) + DaysBefore(y, m - 1, d)
  ELSE IF y > 2024 THEN DaysInYear(y - 1) + DaysBefore(y - 1, 1, d)
  ELSE IF y < 2024 THEN DaysBefore(y + 1, 1, d) - DaysInYear(y)
  ELSE d - 1

At(y, m, d, h) == 24 * DaysBefore(y, m, d) + h

\* All lists over S of at most n elements.
ListsUpTo(S, n) == UNION {[1 .. k -> S] : k \in 0 .. n}

\* The order fetchTransactions asks for: .order('date', { ascending: false });
\* rows of one date come in any order.
DateDescending(list) ==
  \A i \in 1 .. Len(list) - 1 : list[i].date >= list[i + 1].date

Tx(date, category, amount, type) ==
  [date |-> date, category |-> category, amount |-> amount, type |-> type]

Types == {"income", "expense"}

Zones == {0, 3}

(* ---------------------- specification: the summary --------------------- *)

SummaryClocks == {At(2024, 4, 30, 22), At(2024, 5, 31, 20)}

SummaryDates == {20230515, 20240430, 20240501, 20240531, 20240601}

\* 0.10, 0.20 and 0.30, as typed into the amount field (step 0.01).
SummaryAmounts == {parseFloat(10), parseFloat(20), parseFloat(30)}

SummaryTx ==
  {Tx(d, "food", a, t) : d \in SummaryDates, a \in SummaryAmounts, t \in Types}

NoSummary == [income |-> Lit(0), expenses |-> Lit(0), balance |-> Lit(0)]

InitSummary ==
  /\ now \in SummaryClocks
  /\ tz \in Zones
  /\ transactions \in {l \in ListsUpTo(SummaryTx, MaxTx) : DateDescending(l)}
  /\ summary = NoSummary
  /\ budgets = <<>>
  /\ budgetAnalysis = <<>>
  /\ pc = "props"
  /\ NoGoals
  /\ NoCharts
  /\ NoBudgetStore

\* A render of FinanceTracker: const { income, expenses, balance } = calculateSummary()
RenderSummary ==
  /\ pc = "props"
  /\ summary' = calculateSummary(transactions, now, tz)
  /\ pc' = "rendered"
  /\ UNCHANGED <<now, tz, appVars, storeVars, policyVars, transactions, budgets, budgetAnalysis, goalVars, chartVars>>

NextSummary == RenderSummary

SpecSummary == InitSummary /\ [][NextSummary]_vars

(* ------------------------------ claim C1 ------------------------------- *)

\* The mathematical sum of the amounts of the transactions of `type` dated in
\* `month`, taken over the positions of the list.
RECURSIVE MonthTotal(_, _, _, _)
MonthTotal(txs, positions, month, type) ==
  IF positions = {} THEN Exactly(0)
  ELSE LET i == CHOOSE j \in positions : TRUE
           rest == MonthTotal(txs, positions \ {i}, month, type)
       IN  IF txs[i].type = type /\ txs[i].date \div 100 = month
           THEN ExactSum(rest, txs[i].amount) ELSE rest

Permute(list, p) == [i \in 1 .. Len(list) |-> list[p[i]]]

Orderings(list) ==
  {Permute(list, p) : p \in {q \in [1 .. Len(list) -> 1 .. Len(list)] :
                               \A i, j \in 1 .. Len(list) : i # j => q[i] # q[j]}}

\* C1: at every render, income and expenses are exactly the sums of the
\* month's income and expense amounts, balance is exactly their difference,
\* the three do not depend on the order of the list, and an empty list gives
\* three zeros.
C1_SummaryExact ==
  pc = "rendered" =>
    LET month == FormatMonth(now, tz)
        inc == MonthTotal(transactions, DOMAIN transactions, month, "income")
        exp == MonthTotal(transactions, DOMAIN transactions, month, "expense")
    IN  /\ summary.income = inc
        /\ summary.expenses = exp
        /\ summary.balance = ExactSum(inc, Neg(exp))
        /\ \A l \in Orderings(transactions) : calculateSummary(l, now, tz) = summary
        /\ transactions = <<>> => summary = NoSummary

(* ---------------------- specification: the budgets --------------------- *)

MaxBudgetTx == 3

Budget(category, limit, period, start, end) ==
  [category |-> category, limit_amount |-> limit, period |-> period,
   start_date |-> start, end_date |-> end]

\* A monthly budget created in May 2024 and a weekly one created in the week
\* of Monday 2024-05-06.
FoodBudget == Budget("food", Lit(100), "monthly", 20240501, 20240531)

RentBudget == Budget("rent", Lit(40), "weekly", 20240506, 20240512)

BudgetLists == {<<FoodBudget>>, <<RentBudget, FoodBudget>>}

\* Expenses the food budget counts, on its first and last day, and one
\* transaction failing each single condition of the filter.
BudgetTx ==
  { Tx(20240501, "food", Lit(80), "expense"),
    Tx(20240531, "food", Lit(20), "expense"),
    Tx(20240531, "food", Lit(10), "expense"),
    Tx(20240531, "food", Lit(80), "income"),
    Tx(20240512, "rent", Lit(40), "expense"),
    Tx(20240513, "rent", Lit(40), "expense"),
    Tx(20240430, "food", Lit(80), "expense"),
    Tx(20240601, "food", Lit(80), "expense") }

InitBudget ==
  /\ now = At(2024, 6, 2, 12)
  /\ tz = 0
  /\ transactions \in {l \in ListsUpTo(BudgetTx, MaxBudgetTx) : DateDescending(l)}
  /\ summary = NoSummary
  /\ budgets \in BudgetLists
  /\ budgetAnalysis = <<>>
  /\ pc = "props"
  /\ NoGoals
  /\ NoCharts
  /\ NoBudgetStore

\* A render of BudgetManager evaluates the budgetAnalysis memo.
RenderBudgets ==
  /\ pc = "props"
  /\ budgetAnalysis' = ComputeBudgetAnalysis(budgets, transactions)
  /\ pc' = "rendered"
  /\ UNCHANGED <<now, tz, appVars, storeVars, policyVars, transactions, summary, budgets, goalVars, chartVars>>

NextBudget == RenderBudgets

SpecBudget == InitBudget /\ [][NextBudget]_vars

(* ------------------------------ claim C2 ------------------------------- *)

\* The positions of the transactions a budget counts: expenses of its
\* category dated from its first to its last day, both included.
CountedPositions(b, txs) ==
  {i \in DOMAIN txs : /\ txs[i].type = "expense"
                      /\ txs[i].category = b.category
                      /\ b.start_date <= txs[i].date
                      /\ txs[i].date <= b.end_date}

\* The amounts at the given positions added up in list order.
RECURSIVE TotalAt(_, _)
TotalAt(txs, positions) ==
  IF positions = {} THEN Lit(0)
  ELSE LET last == Max(positions)
       IN  FAdd(TotalAt(txs, positions \ {last}), txs[last].amount)

\* C2: every budget's spent is the sum of the amounts of exactly the expense
\* transactions of its category dated within [startDate, endDate].
C2_SpentIsCountedTotal ==
  pc = "rendered" =>
    /\ Len(budgetAnalysis) = Len(budgets)
    /\ \A i \in DOMAIN budgets :
         budgetAnalysis[i].spent = TotalAt(transactions, CountedPositions(budgets[i], transactions))

\* A render in which a counted expense lies on the first day and one on the
\* last day of a budget, beside an income, an expense of another category and
\* expenses dated the day before and the day after the range.
C2_Witness ==
  /\ pc = "rendered"
  /\ \E i \in DOMAIN budgets :
       LET b == budgets[i]
       IN  /\ \E j \in CountedPositions(b, transactions) : transactions[j].date = b.start_date
           /\ \E j \in CountedPositions(b, transactions) : transactions[j].date = b.end_date
           /\ \E j \in DOMAIN transactions :
                transactions[j].date > b.end_date /\ transactions[j].category = b.category
           /\ budgetAnalysis[i].spent = Lit(100)

(* ------------------------------ claim C3 ------------------------------- *)

\* C3: for every budget (limitAmount > 0), remaining = limitAmount - spent,
\* isOverBudget holds exactly when spent > limitAmount, isNearLimit exactly
\* when spent / limitAmount * 100 > 80 and not isOverBudget; the two flags
\* are never both set; spent = limitAmount sets isNearLimit only, and spent
\* at exactly 80% of the limit sets neither.
C3_BudgetFlags ==
  pc = "rendered" =>
    \A i \in DOMAIN budgetAnalysis :
      LET a == budgetAnalysis[i]
          limit == budgets[i].limit_amount
          spent == TotalAt(transactions, CountedPositions(budgets[i], transactions))
      IN  /\ a.remaining = FSub(limit, spent)
          /\ FLess(a.remaining, Lit(0)) <=> FGreater(spent, limit)
          /\ a.isOverBudget <=> FGreater(spent, limit)
          /\ a.isNearLimit <=>
               (FGreater(FMul(FDiv(spent, limit), Lit(100)), Lit(80)) /\ ~a.isOverBudget)
          /\ ~(a.isOverBudget /\ a.isNearLimit)
          /\ spent = limit => (a.isNearLimit /\ ~a.isOverBudget)
          /\ (IsNum(spent) /\ MagMul(spent.bits, {0, 2}) = MagMul(limit.bits, {2}))
               => (~a.isNearLimit /\ ~a.isOverBudget)

\* A render showing one budget spent to exactly its limit and one spent to
\* exactly 80% of it.
C3_Witness ==
  /\ pc = "rendered"
  /\ \E i \in DOMAIN budgetAnalysis :
       /\ budgetAnalysis[i].spent = budgets[i].limit_amount
       /\ budgetAnalysis[i].isNearLimit
  /\ \E i \in DOMAIN budgetAnalysis :
       /\ budgetAnalysis[i].spent = Lit(80)
       /\ budgets[i].limit_amount = Lit(100)
       /\ ~budgetAnalysis[i].isNearLimit

(* ------------------------------ goal store ----------------------------- *)

\* The number of clicks (add, adjust, delete) followed.
MaxClicks == 2

\* The open views (browser tabs) of one signed-in user.
Views == {"tab1", "tab2"}

\* The amounts of the three adjust buttons of a goal card.
Deltas == {Lit(1000), Lit(5000), Lit(-1000)}

\* What parseFloat(targetAmount) can be when the form is submitted.
GoalTargets == {Lit(0), Lit(1000)}

GoalTitles == {"car"}

\* A row of financial_goals as the insert of addGoal creates it: the columns
\* the insert does not name take their defaults.  A deadline is a 'yyyy-MM-dd'
\* day, or 0 for null.
NewGoal(id, title, target) ==
  [id |-> id, title |-> title, target_amount |-> target,
   current_amount |-> Lit(0), deadline |-> 0, category |-> "null",
   is_completed |-> FALSE]

\* goals.find(g => g.id === goalId); a list holds at most one row of an id.
HasGoal(list, goalId) == \E i \in DOMAIN list : list[i].id = goalId

FindGoal(list, goalId) == list[CHOOSE i \in DOMAIN list : list[i].id = goalId]

\* .order('created_at', { ascending: false })
NewestFirst(rows) == [i \in 1 .. Len(rows) |-> rows[Len(rows) + 1 - i]]

\* A handler waiting at an await: "write" its insert/update/delete is on its
\* way to the store, "fetch" the select of its fetchGoals is on its way,
\* "apply" the select's rows are on their way back.
Handler(view, op, stage, goalId, title, delta, amount, done) ==
  [view |-> view, op |-> op, stage |-> stage, goalId |-> goalId, title |-> title,
   delta |-> delta, amount |-> amount, done |-> done, data |-> <<>>]

Waiting == BagToSet(inflight)

Start(h) == inflight' = inflight (+) SetToBag({h})

Advance(h, g) == inflight' = (inflight (-) SetToBag({h})) (+) SetToBag({g})

Finish(h) == inflight' = inflight (-) SetToBag({h})

\* What the table holds when the views open: nothing, or a goal of 10000 that
\* nine clicks on +1000 have brought to 9000.
StoredGoals ==
  {<<>>, <<[NewGoal(1, "car", Lit(10000)) EXCEPT !.current_amount = Lit(9000)]>>}

\* useEffect(() => { fetchGoals() }, []) of a view just opened.
InitGoals ==
  /\ now = At(2024, 6, 2, 12)
  /\ tz = 0
  /\ pc = "props"
  /\ transactions = <<>>
  /\ summary = NoSummary
  /\ budgets = <<>>
  /\ budgetAnalysis = <<>>
  /\ dbGoals \in StoredGoals
  /\ nextId = Len(dbGoals) + 1
  /\ goals = [v \in Views |-> <<>>]
  /\ inflight = SetToBag({Handler(v, "fetchGoals", "fetch", 0, "", Lit(0), Lit(0), FALSE)
                          : v \in Views})
  /\ clicks = 0
  /\ progress = [v \in Views |-> <<>>]
  /\ deadlines = [v \in Views |-> <<>>]
  /\ adjustBy = Lit(0)
  /\ NoCharts
  /\ NoBudgetStore

\* addGoal up to its first await: the insert is sent.
addGoal(view, title, target) ==
  /\ clicks < MaxClicks
  /\ clicks' = clicks + 1
  /\ Start(Handler(view, "addGoal", "write", 0, title, Lit(0), target, FALSE))
  /\ UNCHANGED <<now, tz, appVars, storeVars, policyVars, pc, adjustBy, trackerVars, chartVars, dbGoals, nextId, goals, progress, deadlines>>

\* A faulty adjustment that takes a goal for completed only above its target.
updateGoalProgressAboveTarget(view, goalId, amount) ==
  /\ clicks < MaxClicks
  /\ clicks' = clicks + 1
  /\ HasGoal(goals[view], goalId)
  /\ ~FindGoal(goals[view], goalId).is_completed
  /\ LET goal == FindGoal(goals[view], goalId)
         newAmount == MathMax(Lit(0), FAdd(goal.current_amount, amount))
         isCompleted == FGreater(newAmount, goal.target_amount)
     IN  Start(Handler(view, "updateGoalProgress", "write", goalId, "", amount,
                       newAmount, isCompleted))
  /\ UNCHANGED <<now, tz, appVars, storeVars, policyVars, pc, adjustBy, trackerVars, chartVars, dbGoals, nextId, goals, progress, deadlines>>

\* A faulty adjustment that lets the amount fall below zero.
updateGoalProgressUnclamped(view, goalId, amount) ==
  /\ clicks < MaxClicks
  /\ clicks' = clicks + 1
  /\ HasGoal(goals[view], goalId)
  /\ ~FindGoal(goals[view], goalId).is_completed
  /\ LET goal == FindGoal(goals[view], goalId)
         newAmount == FAdd(goal.current_amount, amount)
         isCompleted == FGeq(newAmount, goal.target_amount)
     IN  Start(Handler(view, "updateGoalProgress", "write", goalId, "", amount,
                       newAmount, isCompleted))
  /\ UNCHANGED <<now, tz, appVars, storeVars, policyVars, pc, adjustBy, trackerVars, chartVars, dbGoals, nextId, goals, progress, deadlines>>

\* A click on an adjust button, rendered for the goals of the view's list
\* that are not completed: updateGoalProgress up to its first await.
updateGoalProgress(view, goalId, amount) ==
  /\ clicks < MaxClicks
  /\ clicks' = clicks + 1
  /\ HasGoal(goals[view], goalId)
  /\ ~FindGoal(goals[view], goalId).is_completed
  /\ LET goal == FindGoal(goals[view], goalId)
         newAmount == MathMax(Lit(0), FAdd(goal.current_amount, amount))
         isCompleted == FGeq(newAmount, goal.target_amount)
     IN  Start(Handler(view, "updateGoalProgress", "write", goalId, "", amount,
                       newAmount, isCompleted))
  /\ UNCHANGED <<now, tz, appVars, storeVars, policyVars, pc, adjustBy, trackerVars, chartVars, dbGoals, nextId, goals, progress, deadlines>>

\* A click on a goal card's delete button: deleteGoal up to its first await.
deleteGoal(view, goalId) ==
  /\ clicks < MaxClicks
  /\ clicks' = clicks + 1
  /\ HasGoal(goals[view], goalId)
  /\ Start(Handler(view, "deleteGoal", "write", goalId, "", Lit(0), Lit(0), FALSE))
  /\ UNCHANGED <<now, tz, appVars, storeVars, policyVars, pc, adjustBy, trackerVars, chartVars, dbGoals, nextId, goals, progress, deadlines>>

\* The store executes the insert of addGoal.  A row violating
\* CHECK (target_amount > 0) is rejected and the handler ends in its catch;
\* otherwise the handler goes on to await fetchGoals().
StoreInsert(h) ==
  /\ h.op = "addGoal" /\ h.stage = "write"
  /\ IF FGreater(h.amount, Lit(0))
     THEN /\ dbGoals' = Append(dbGoals, NewGoal(nextId, h.title, h.amount))
          /\ nextId' = nextId + 1
          /\ Advance(h, [h EXCEPT !.stage = "fetch"])
     ELSE /\ Finish(h)
          /\ UNCHANGED <<dbGoals, nextId>>
  /\ UNCHANGED <<now, tz, appVars, storeVars, policyVars, pc, adjustBy, trackerVars, chartVars, goals, clicks, progress, deadlines>>

\* A faulty update that sets current_amount and leaves is_completed to a
\* second statement.
UpdatedAmountOnly(g, h) ==
  IF g.id = h.goalId THEN [g EXCEPT !.current_amount = h.amount] ELSE g

\* A faulty update without .eq('id', goalId): it sets the columns of every row.
UpdatedEveryRow(g, h) ==
  [g EXCEPT !.current_amount = h.amount, !.is_completed = h.done]

\* The row the update of updateGoalProgress leaves of row g.
Updated(g, h) ==
  IF g.id = h.goalId
  THEN [g EXCEPT !.current_amount = h.amount, !.is_completed = h.done]
  ELSE g

\* The store executes the update of updateGoalProgress: one statement setting
\* both columns of the rows with the id (none, if the goal was deleted).
StoreUpdate(h) ==
  /\ h.op = "updateGoalProgress" /\ h.stage = "write"
  /\ IF FGeq(h.amount, Lit(0)) \/ ~HasGoal(dbGoals, h.goalId)
     THEN /\ dbGoals' = [i \in DOMAIN dbGoals |-> Updated(dbGoals[i], h)]
          /\ Advance(h, [h EXCEPT !.stage = "fetch"])
     ELSE /\ Finish(h)
          /\ UNCHANGED dbGoals
  /\ UNCHANGED <<now, tz, appVars, storeVars, policyVars, pc, adjustBy, trackerVars, chartVars, nextId, goals, clicks, progress, deadlines>>

\* The store executes the delete of deleteGoal.
StoreDelete(h) ==
  /\ h.op = "deleteGoal" /\ h.stage = "write"
  /\ LET Kept(g) == g.id # h.goalId IN dbGoals' = SelectSeq(dbGoals, Kept)
  /\ Advance(h, [h EXCEPT !.stage = "fetch"])
  /\ UNCHANGED <<now, tz, appVars, storeVars, policyVars, pc, adjustBy, trackerVars, chartVars, nextId, goals, clicks, progress, deadlines>>

\* The store executes the select of fetchGoals.
StoreSelect(h) ==
  /\ h.stage = "fetch"
  /\ Advance(h, [h EXCEPT !.stage = "apply", !.data = NewestFirst(dbGoals)])
  /\ UNCHANGED <<now, tz, appVars, storeVars, policyVars, pc, adjustBy, trackerVars, chartVars, dbGoals, nextId, goals, clicks, progress, deadlines>>

\* The select's rows arrive: setGoals(data || []), and the handler ends.
setGoals(h) ==
  /\ h.stage = "apply"
  /\ goals' = [goals EXCEPT ![h.view] = h.data]
  /\ Finish(h)
  /\ UNCHANGED <<now, tz, appVars, storeVars, policyVars, pc, adjustBy, trackerVars, chartVars, dbGoals, nextId, clicks, progress, deadlines>>

NextGoals ==
  \/ \E v \in Views, title \in GoalTitles, target \in GoalTargets : addGoal(v, title, target)
  \/ \E v \in Views, d \in Deltas : \E i \in DOMAIN goals[v] :
       updateGoalProgress(v, goals[v][i].id, d)
  \/ \E v \in Views : \E i \in DOMAIN goals[v] : deleteGoal(v, goals[v][i].id)
  \/ \E h \in Waiting : StoreInsert(h)
  \/ \E h \in Waiting : StoreUpdate(h)
  \/ \E h \in Waiting : StoreDelete(h)
  \/ \E h \in Waiting : StoreSelect(h)
  \/ \E h \in Waiting : setGoals(h)

SpecGoals == InitGoals /\ [][NextGoals]_vars

(* ------------------------------ claim C4 ------------------------------- *)

\* The handlers a step has started.
Started ==
  {h \in BagToSet(inflight') :
     h.stage = "write" /\ CopiesIn(h, inflight') > CopiesIn(h, inflight)}

\* C4: updateGoalProgress(goal, delta) sends newAmount = max(0, currentAmount
\* + delta) and isCompleted = (newAmount >= targetAmount), with goal the row of
\* the calling view's list, and the store receives the two values in one
\* update: a step that changes current_amount or is_completed of a stored goal
\* is the update of one waiting updateGoalProgress on that goal and sets both
\* columns to the two values that handler sent, leaving the goal's other
\* columns alone.
C4_OneUpdate ==
  [][ /\ \A h \in Started :
           h.op = "updateGoalProgress" =>
             /\ HasGoal(goals[h.view], h.goalId)
             /\ LET goal == FindGoal(goals[h.view], h.goalId)
                IN  /\ h.amount = MathMax(Lit(0), FAdd(goal.current_amount, h.delta))
                    /\ h.done = FGeq(h.amount, goal.target_amount)
      /\ \A i \in DOMAIN dbGoals : \A j \in DOMAIN dbGoals' :
           (dbGoals[i].id = dbGoals'[j].id /\ dbGoals[i] # dbGoals'[j]) =>
             \E h \in Waiting :
               /\ h.op = "updateGoalProgress" /\ h.stage = "write"
               /\ h.goalId = dbGoals[i].id
               /\ dbGoals'[j] = [dbGoals[i] EXCEPT !.current_amount = h.amount,
                                                   !.is_completed = h.done]
               /\ CopiesIn(h, inflight') < CopiesIn(h, inflight)
    ]_vars

\* The store has executed an update that crossed the target: the stored goal
\* holds the amount sent and is completed, and the handler goes on to refetch.
C4_Witness ==
  \E h \in Waiting : \E i \in DOMAIN dbGoals :
    /\ h.op = "updateGoalProgress" /\ h.stage = "fetch"
    /\ h.delta = Lit(5000)
    /\ dbGoals[i].id = h.goalId
    /\ dbGoals[i].current_amount = Lit(14000)
    /\ dbGoals[i].current_amount = h.amount
    /\ dbGoals[i].is_completed /\ h.done

(* ------------------------------ claim C17 ------------------------------ *)

\* C17: in every step, a stored goal that is still stored afterwards either
\* keeps its whole row, or is the goal of an updateGoalProgress whose update
\* the store executes in this step, and then it keeps its id, title,
\* target_amount, deadline and category and takes the amount and the
\* completion the handler sent.  So the steps of addGoal, deleteGoal and
\* fetchGoals change no goal, and an update changes no other goal.
C17_OnlyUpdateChangesProgress ==
  [][\A i \in DOMAIN dbGoals : \A j \in DOMAIN dbGoals' :
       dbGoals[i].id = dbGoals'[j].id =>
         \/ dbGoals'[j] = dbGoals[i]
         \/ \E h \in Waiting :
              /\ h.op = "updateGoalProgress" /\ h.stage = "write"
              /\ h.goalId = dbGoals[i].id
              /\ CopiesIn(h, inflight') < CopiesIn(h, inflight)
              /\ dbGoals'[j] = [dbGoals[i] EXCEPT !.current_amount = h.amount,
                                                  !.is_completed = h.done]]_vars

\* The stored goal was raised to its target of 10000 while the goal added
\* beside it is as it was inserted.
C17_Witness ==
  /\ Len(dbGoals) = 2
  /\ dbGoals[1].current_amount = Lit(10000) /\ dbGoals[1].is_completed
  /\ dbGoals[2].current_amount = Lit(0) /\ ~dbGoals[2].is_completed

(* ------------------------------ claim C5 ------------------------------- *)

\* C5: every stored goal has is_completed <=> current_amount >= target_amount
\* and current_amount >= 0, whatever views (stale ones included) issued the
\* operations; a row that a step adds to the store has current_amount = 0 and
\* is_completed = FALSE.
C5_GoalInvariant ==
  /\ [](\A i \in DOMAIN dbGoals :
          /\ dbGoals[i].is_completed <=>
               FGeq(dbGoals[i].current_amount, dbGoals[i].target_amount)
          /\ FGeq(dbGoals[i].current_amount, Lit(0)))
  /\ [][\A j \in DOMAIN dbGoals' :
          ~HasGoal(dbGoals, dbGoals'[j].id) =>
            /\ dbGoals'[j].current_amount = Lit(0)
            /\ ~dbGoals'[j].is_completed]_vars

\* An adjustment computed from a stale list has been stored: a view shows the
\* goal completed at its target while the store holds it, not completed, at
\* the amount another view computed from the older row.
C5_Witness ==
  \E v \in Views : \E i \in DOMAIN dbGoals :
    /\ HasGoal(goals[v], dbGoals[i].id)
    /\ FindGoal(goals[v], dbGoals[i].id).is_completed
    /\ FindGoal(goals[v], dbGoals[i].id).current_amount = dbGoals[i].target_amount
    /\ ~dbGoals[i].is_completed
    /\ dbGoals[i].current_amount = Lit(8000)

(* ---------------------------- goal progress ---------------------------- *)

\* A faulty percentage without the cap at 100.
getProgressPercentageUncapped(goal) ==
  FMul(FDiv(goal.current_amount, goal.target_amount), Lit(100))

getProgressPercentage(goal) ==
  MathMin(FMul(FDiv(goal.current_amount, goal.target_amount), Lit(100)), Lit(100))

\* The largest current_amount of a shown goal, in thousands.
MaxThousands == 14

\* Target amounts the step-0.01 form field can give: 0.01, 2500.5 and whole
\* amounts.
ProgressTargets ==
  {parseFloat(1), parseFloat(250050), Lit(3000), Lit(10000), Lit(12000)}

\* The rows the adjust buttons can produce: current_amount is a multiple of
\* 1000 less than 5000 above the target, and is_completed is as the last
\* update computed it.
ProgressGoals ==
  {[NewGoal(1, "car", target) EXCEPT
      !.current_amount = Lit(1000 * k),
      !.is_completed = FGeq(Lit(1000 * k), target)]
   : <<target, k>> \in
       {x \in ProgressTargets \X (0 .. MaxThousands) :
          FLess(Lit(1000 * x[2]), FAdd(x[1], Lit(5000)))}}

InitProgress ==
  /\ now = At(2024, 6, 2, 12)
  /\ tz = 0
  /\ pc = "props"
  /\ transactions = <<>>
  /\ summary = NoSummary
  /\ budgets = <<>>
  /\ budgetAnalysis = <<>>
  /\ dbGoals \in {<<>>} \cup {<<g>> : g \in ProgressGoals}
  /\ nextId = Len(dbGoals) + 1
  /\ goals = [v \in Views |-> dbGoals]
  /\ inflight = EmptyBag
  /\ clicks = 0
  /\ progress = [v \in Views |-> <<>>]
  /\ deadlines = [v \in Views |-> <<>>]
  /\ adjustBy = Lit(0)
  /\ NoCharts
  /\ NoBudgetStore

\* new Date('yyyy-MM-dd'): a date-only string is midnight UTC of that day.
ParseDate(dateStr) ==
  At(dateStr \div 10000, (dateStr \div 100) % 100, dateStr % 100, 0)

\* Math.ceil(a / b) for integers a and b > 0.
Ceil(a, b) == -((-a) \div b)

\* getDaysRemaining: the milliseconds between the deadline and new Date(),
\* divided by the milliseconds of a day (here hours, and 24), rounded up.
getDaysRemaining(deadline, date) ==
  LET today == date
      deadlineDate == ParseDate(deadline)
      diffTime == deadlineDate - today
  IN  Ceil(diffTime, 24)

\* The deadline label of a goal card: shown for a goal with a deadline that is
\* not completed; urgent is the class text-expense.
DeadlineLabel(goal, date) ==
  IF goal.deadline = 0 \/ goal.is_completed
  THEN [shown |-> FALSE, daysRemaining |-> 0, text |-> "", urgent |-> FALSE]
  ELSE LET daysRemaining == getDaysRemaining(goal.deadline, date)
       IN  [shown |-> TRUE,
            daysRemaining |-> daysRemaining,
            text |-> IF daysRemaining > 0 THEN "remaining"
                     ELSE IF daysRemaining = 0 THEN "today" ELSE "overdue",
            urgent |-> daysRemaining < 30]

\* A render of a view's goal cards: const progress = getProgressPercentage(goal)
\* and const daysRemaining = goal.deadline ? getDaysRemaining(goal.deadline) : null
RenderGoals(view) ==
  /\ pc = "props"
  /\ pc' = "rendered"
  /\ progress' = [progress EXCEPT
                    ![view] = [i \in DOMAIN goals[view] |->
                                 getProgressPercentage(goals[view][i])]]
  /\ deadlines' = [deadlines EXCEPT
                     ![view] = [i \in DOMAIN goals[view] |->
                                  DeadlineLabel(goals[view][i], now)]]
  /\ UNCHANGED <<now, tz, appVars, storeVars, policyVars, adjustBy, trackerVars, chartVars, dbGoals, nextId, goals, inflight, clicks>>

NextProgress == \E v \in Views : RenderGoals(v)

SpecProgress == InitProgress /\ [][NextProgress]_vars

(* ------------------------------ claim C8 ------------------------------- *)

\* C8: for every goal with target_amount > 0 and current_amount >= 0 the
\* rendered progress is min(current_amount / target_amount * 100, 100): it lies
\* in [0, 100], is 100 exactly for the goals at or above their target, however
\* far above, and is 0 exactly for the goals at 0.
C8_ProgressCapped ==
  \A v \in Views : \A i \in DOMAIN progress[v] :
    LET goal == goals[v][i]
        p == progress[v][i]
        ratio == FMul(FDiv(goal.current_amount, goal.target_amount), Lit(100))
    IN  (FGreater(goal.target_amount, Lit(0)) /\ FGeq(goal.current_amount, Lit(0))) =>
          /\ p = (IF FLess(Lit(100), ratio) THEN Lit(100) ELSE ratio)
          /\ FGeq(p, Lit(0)) /\ FLeq(p, Lit(100))
          /\ p = Lit(100) <=> FGeq(goal.current_amount, goal.target_amount)
          /\ p = Lit(0) <=> goal.current_amount = Lit(0)

\* A rendered goal of 14000 against a target of 10000 shows 100.
C8_Witness ==
  \E v \in Views : \E i \in DOMAIN progress[v] :
    /\ goals[v][i].current_amount = Lit(14000)
    /\ goals[v][i].target_amount = Lit(10000)
    /\ progress[v][i] = Lit(100)

(* -------------------------- category breakdown ------------------------- *)

\* The number of categories ExpenseChart keeps: .slice(0, 6)
TopCategories == 6

\* x || 0
OrZero(x) == IF x.cls = "nan" \/ (x.cls = "num" /\ x.bits = {}) THEN Lit(0) ELSE x

\* monthExpenses.reduce((acc, transaction) => { acc[category] = (acc[category]
\* || 0) + amount; return acc }, {}), as Object.entries lists it: one pair per
\* category, in the order the categories first occur.
RECURSIVE CategoryTotals(_, _)
CategoryTotals(list, acc) ==
  IF list = <<>> THEN acc
  ELSE LET t == Head(list)
           at == {i \in DOMAIN acc : acc[i].category = t.category}
       IN  CategoryTotals(Tail(list),
             IF at = {}
             THEN Append(acc, [category |-> t.category,
                               amount |-> FAdd(Lit(0), t.amount)])
             ELSE LET i == CHOOSE i \in at : TRUE
                  IN  [acc EXCEPT ![i].amount = FAdd(OrZero(@), t.amount)])

\* .sort((a, b) => b.amount - a.amount): a stable sort, so an entry comes after
\* the entries before it in the list that are not smaller.
RECURSIVE SortByAmount(_, _)
SortByAmount(list, sorted) ==
  IF list = <<>> THEN sorted
  ELSE LET e == Head(list)
           k == Cardinality({i \in DOMAIN sorted : FGeq(sorted[i].amount, e.amount)})
       IN  SortByAmount(Tail(list),
             SubSeq(sorted, 1, k) \o <<e>> \o SubSeq(sorted, k + 1, Len(sorted)))

\* .slice(0, n)
Slice(list, n) == SubSeq(list, 1, IF Len(list) < n THEN Len(list) ELSE n)

RECURSIVE IntegerPart(_)
IntegerPart(S) ==
  LET W == {i \in S : i >= 0}
  IN  IF W = {} THEN 0
      ELSE LET k == Max(W) IN 2 ^ k + IntegerPart(W \ {k})

\* x.toFixed(1) of a finite x: the decimal string with one fraction digit
\* nearest to x, the larger of two nearest; modelled by its sign and its
\* number of tenths ("33.3" is 333 tenths).
toFixed1(x) ==
  [form |-> "fixed", sign |-> x.sign,
   tenths |-> IntegerPart(MagAdd(MagMul(x.bits, {1, 3}), {-1}))]

\* The string '0'.
ZeroString == [form |-> "0", sign |-> 1, tenths |-> 0]

\* ExpenseChart's chartData memo.
ChartData(txs, date) ==
  LET currentMonth == ISOMonth(date)
      InMonth(t) == t.type = "expense" /\ StartsWith(t.date, currentMonth)
      monthExpenses == SelectSeq(txs, InMonth)
      categoryTotals == CategoryTotals(monthExpenses, <<>>)
  IN  Slice(SortByAmount(categoryTotals, <<>>), TopCategories)

\* ExpenseChart's dataWithPercentages.
DataWithPercentages(txs, date) ==
  LET chartData == ChartData(txs, date)
      totalAmount == SumAmounts(chartData, Lit(0))
  IN  [i \in DOMAIN chartData |->
         [category |-> chartData[i].category,
          amount |-> chartData[i].amount,
          percentage |->
            IF FGreater(totalAmount, Lit(0))
            THEN toFixed1(FMul(FDiv(chartData[i].amount, totalAmount), Lit(100)))
            ELSE ZeroString]]

\* The instants of the renders: mid-month, and 22:00 UTC on 31 May.
ChartClocks == {At(2024, 5, 15, 12), At(2024, 5, 31, 22)}

\* The transactions fetched, newest first; a render sees any of them.
ChartTransactions ==
  << Tx(20240601, "cafe", Lit(50), "expense"),
     Tx(20240531, "food", Lit(300), "expense"),
     Tx(20240528, "salary", Lit(2000), "income"),
     Tx(20240520, "rent", Lit(700), "expense"),
     Tx(20240518, "fun", Lit(200), "expense"),
     Tx(20240515, "taxi", Lit(100), "expense"),
     Tx(20240512, "gifts", Lit(150), "expense"),
     Tx(20240510, "books", Lit(120), "expense"),
     Tx(20240505, "food", Lit(500), "expense"),
     Tx(20240501, "health", Lit(80), "expense") >>

\* The sublist of list at the positions in P.
RECURSIVE Sublist(_, _)
Sublist(list, P) ==
  IF P = {} THEN <<>>
  ELSE LET k == Max(P) IN Append(Sublist(list, P \ {k}), list[k])

InitChart ==
  /\ now \in ChartClocks
  /\ tz \in Zones
  /\ pc = "props"
  /\ transactions \in {Sublist(ChartTransactions, P) : P \in SUBSET DOMAIN ChartTransactions}
  /\ summary = NoSummary
  /\ budgets = <<>>
  /\ budgetAnalysis = <<>>
  /\ NoGoals
  /\ NoCharts
  /\ NoBudgetStore

\* A render of FinanceTracker with its ExpenseChart: the summary cards and the
\* chart are computed from the same transactions at the same instant.
RenderChart ==
  /\ pc = "props"
  /\ pc' = "rendered"
  /\ summary' = calculateSummary(transactions, now, tz)
  /\ categoryChart' = DataWithPercentages(transactions, now)
  /\ UNCHANGED <<now, tz, appVars, storeVars, policyVars, transactions, budgets, budgetAnalysis, goalVars, trendChart>>

NextChart == RenderChart

SpecChart == InitChart /\ [][NextChart]_vars

(* ------------------------------ claim C6 ------------------------------- *)

\* The positions of txs holding an expense of category c dated in month.
ExpensePositions(txs, month, c) ==
  {i \in DOMAIN txs : /\ txs[i].type = "expense"
                      /\ txs[i].category = c
                      /\ StartsWith(txs[i].date, month)}

\* chart is the category breakdown of the expenses of txs in month: one entry
\* per expense category of the month among the listed ones, each with that
\* category's total, in non-increasing order of amount, the TopCategories
\* largest when there are more, none omitted that exceeds a listed one.
IsBreakdown(chart, txs, month) ==
  LET cats == {txs[i].category : i \in {j \in DOMAIN txs :
                 txs[j].type = "expense" /\ StartsWith(txs[j].date, month)}}
      listed == {chart[i].category : i \in DOMAIN chart}
  IN  /\ listed \subseteq cats
      /\ \A i, j \in DOMAIN chart : chart[i].category = chart[j].category => i = j
      /\ \A i \in DOMAIN chart :
           chart[i].amount = TotalAt(txs, ExpensePositions(txs, month, chart[i].category))
      /\ \A i, j \in DOMAIN chart : i < j => FGeq(chart[i].amount, chart[j].amount)
      /\ Len(chart) = (IF Cardinality(cats) < TopCategories
                       THEN Cardinality(cats) ELSE TopCategories)
      /\ \A c \in cats \ listed : \A i \in DOMAIN chart :
           FLeq(TotalAt(txs, ExpensePositions(txs, month, c)), chart[i].amount)
      /\ cats = {} => chart = <<>>

\* C6: the rendered expense chart is the category breakdown of the current
\* month, the month the period summary of the same render is computed for: one
\* entry per expense category with the category's total, ordered by amount
\* non-increasing, cut to the 6 largest, empty when the month has no expense.
C6_CategoryBreakdown ==
  pc = "rendered" =>
    IsBreakdown(categoryChart, transactions, FormatMonth(now, tz))

(* ------------------------------ claim C7 ------------------------------- *)

\* C7: each entry of the rendered chart carries percentage = amount /
\* totalExpenses * 100 (in the one-decimal rendering the chart shows), with
\* totalExpenses the period's expenses over every category, as the period
\* summary of the same render reports them, and 0 when totalExpenses is 0.
C7_PercentageOfAllExpenses ==
  pc = "rendered" =>
    \A i \in DOMAIN categoryChart :
      LET e == categoryChart[i]
      IN  IF FGreater(summary.expenses, Lit(0))
          THEN e.percentage = toFixed1(FMul(FDiv(e.amount, summary.expenses), Lit(100)))
          ELSE e.percentage.tenths = 0

(* ------------------------------ claim C19 ------------------------------ *)

\* C19: the rendered chart and the period summary of the same render are
\* computed for the same month, so the totals of the chart's categories, when
\* fewer than the 6 the chart can list, add up to the summary's expenses.
C19_SameMonthAsSummary ==
  (pc = "rendered" /\ Len(categoryChart) < TopCategories) =>
    SumAmounts(categoryChart, Lit(0)) = summary.expenses

(* --------------------------- 30-day time series ------------------------ *)

\* Array.from({ length: 30 }, ...)
TrendDays == 30

\* format(date, 'dd.MM') of the day yyyymmdd, as the integer ddmm.
DisplayDate(dateStr) == ((dateStr % 100) * 100) + ((dateStr \div 100) % 100)

\* A faulty bucket whose window ends yesterday.
TrendBucketShifted(txs, date, zone, i) ==
  LET day == startOfDay(subDays(date, TrendDays - i), zone)
      dateStr == FormatDay(day, zone)
      OnDay(t) == t.date = dateStr
      IsIncome(t) == t.type = "income"
      IsExpense(t) == t.type = "expense"
      dayTransactions == SelectSeq(txs, OnDay)
      income == SumAmounts(SelectSeq(dayTransactions, IsIncome), Lit(0))
      expenses == SumAmounts(SelectSeq(dayTransactions, IsExpense), Lit(0))
  IN  [date |-> dateStr, displayDate |-> DisplayDate(dateStr), income |-> income,
       expenses |-> expenses, balance |-> FSub(income, expenses)]

\* The callback of Array.from for index i.  The new Date() of every index of
\* one evaluation of the memo is the one instant of that evaluation.
TrendBucket(txs, date, zone, i) ==
  LET day == startOfDay(subDays(date, (TrendDays - 1) - i), zone)
      dateStr == FormatDay(day, zone)
      OnDay(t) == t.date = dateStr
      IsIncome(t) == t.type = "income"
      IsExpense(t) == t.type = "expense"
      dayTransactions == SelectSeq(txs, OnDay)
      income == SumAmounts(SelectSeq(dayTransactions, IsIncome), Lit(0))
      expenses == SumAmounts(SelectSeq(dayTransactions, IsExpense), Lit(0))
  IN  [date |-> dateStr, displayDate |-> DisplayDate(dateStr), income |-> income,
       expenses |-> expenses, balance |-> FSub(income, expenses)]

\* A faulty series one bucket short.
TrendDataShort(txs, date, zone) ==
  [k \in 1 .. (TrendDays - 1) |-> TrendBucket(txs, date, zone, k - 1)]

\* TrendChart's chartData memo.
TrendData(txs, date, zone) ==
  [k \in 1 .. TrendDays |-> TrendBucket(txs, date, zone, k - 1)]

MaxTrendTx == 3

\* Renders at noon of 1 March 2024 (the window holds 29 February), at 22:00
\* UTC of 31 May 2024 (1 June in zone +3) and in the first hour of 15 January
\* 2025 (the window starts in 2024).
TrendClocks == {At(2024, 3, 1, 12), At(2024, 5, 31, 22), At(2025, 1, 15, 0)}

\* Transactions on the first and last days of the windows, on the days just
\* outside them, and three on 31 May 2024.
TrendTx ==
  {Tx(d, "food", Lit(40), "expense")
     : d \in {20240131, 20240201, 20240229, 20240502, 20240531, 20240601, 20241217}}
    \cup {Tx(d, "salary", Lit(900), "income") : d \in {20240301, 20240531}}
    \cup {Tx(d, "taxi", parseFloat(1050), "expense") : d \in {20240531, 20250115}}

InitTrend ==
  /\ now \in TrendClocks
  /\ tz \in Zones
  /\ pc = "props"
  /\ transactions \in {l \in ListsUpTo(TrendTx, MaxTrendTx) : DateDescending(l)}
  /\ summary = NoSummary
  /\ budgets = <<>>
  /\ budgetAnalysis = <<>>
  /\ NoGoals
  /\ NoCharts
  /\ NoBudgetStore

\* A render of TrendChart evaluates the chartData memo.
RenderTrend ==
  /\ pc = "props"
  /\ pc' = "rendered"
  /\ trendChart' = TrendData(transactions, now, tz)
  /\ UNCHANGED <<now, tz, appVars, storeVars, policyVars, trackerVars, goalVars, categoryChart>>

NextTrend == RenderTrend

SpecTrend == InitTrend /\ [][NextTrend]_vars

(* ------------------------------ claim C9 ------------------------------- *)

\* C9: whatever the transactions (none, several on one day, all outside the
\* window) and whatever the day of the render, the rendered series has
\* exactly 30 buckets.
C9_ThirtyBuckets ==
  pc = "rendered" => (Len(trendChart) = 30 /\ DOMAIN trendChart = 1 .. 30)

\* A series rendered from transactions none of which is dated in the window.
C9_Witness ==
  /\ pc = "rendered"
  /\ Len(transactions) >= 2
  /\ Len(trendChart) = 30
  /\ \A i \in DOMAIN transactions : \A k \in DOMAIN trendChart :
       transactions[i].date # trendChart[k].date

(* ------------------------------ claim C10 ------------------------------ *)

\* The calendar day after the day yyyymmdd.
NextDay(d) ==
  LET y == d \div 10000
      m == (d \div 100) % 100
  IN  IF d % 100 < DaysInMonth(y, m) THEN d + 1
      ELSE IF m < 12 THEN (y * 10000) + ((m + 1) * 100) + 1
      ELSE ((y + 1) * 10000) + 101

RECURSIVE DaysAfter(_, _)
DaysAfter(d, n) == IF n = 0 THEN d ELSE DaysAfter(NextDay(d), n - 1)

\* The positions of txs holding a transaction of the type dated d.
DayPositions(txs, d, type) ==
  {i \in DOMAIN txs : txs[i].date = d /\ txs[i].type = type}

DeadlineClocks ==
  {At(2024, 6, 2, 0), At(2024, 6, 2, 12), At(2024, 6, 2, 22), At(2024, 6, 3, 1)}

\* Deadlines before, on and after those days, 29 to 31 days ahead, and far
\* ahead; 0 is a goal without deadline.
Deadlines ==
  {0, 20240520, 20240601, 20240602, 20240603, 20240701, 20240702, 20240703, 20241231}

\* The goal of 10000 at 9000, and completed at 10000, with the deadline.
DeadlineGoals ==
  {[NewGoal(1, "car", Lit(10000)) EXCEPT
      !.current_amount = amount,
      !.is_completed = FGeq(amount, Lit(10000)),
      !.deadline = deadline]
   : <<amount, deadline>> \in {Lit(9000), Lit(10000)} \X Deadlines}

InitDeadline ==
  /\ now \in DeadlineClocks
  /\ tz \in Zones
  /\ pc = "props"
  /\ transactions = <<>>
  /\ summary = NoSummary
  /\ budgets = <<>>
  /\ budgetAnalysis = <<>>
  /\ dbGoals \in {<<g>> : g \in DeadlineGoals}
  /\ nextId = Len(dbGoals) + 1
  /\ goals = [v \in Views |-> dbGoals]
  /\ inflight = EmptyBag
  /\ clicks = 0
  /\ progress = [v \in Views |-> <<>>]
  /\ deadlines = [v \in Views |-> <<>>]
  /\ adjustBy = Lit(0)
  /\ NoCharts
  /\ NoBudgetStore

NextDeadline == \E v \in Views : RenderGoals(v)

SpecDeadline == InitDeadline /\ [][NextDeadline]_vars

(* ------------------------------ claim C11 ------------------------------ *)

\* C11: the label of a rendered goal with a deadline shows daysRemaining =
\* ceil((deadline - today) / one day), the least number of whole days that
\* reaches from the render to the deadline; it reads overdue when
\* daysRemaining < 0, due today when daysRemaining = 0 and upcoming when
\* daysRemaining > 0, and is marked urgent exactly when 0 < daysRemaining < 30.
C11_DeadlineLabel ==
  \A v \in Views : \A i \in DOMAIN deadlines[v] :
    LET goal == goals[v][i]
        label == deadlines[v][i]
        d == label.daysRemaining
        diff == ParseDate(goal.deadline) - now
    IN  (goal.deadline # 0 /\ ~goal.is_completed) =>
          /\ label.shown
          /\ 24 * d >= diff /\ 24 * (d - 1) < diff
          /\ label.text = "overdue" <=> d < 0
          /\ label.text = "today" <=> d = 0
          /\ label.text = "remaining" <=> d > 0
          /\ label.urgent <=> (0 < d /\ d < 30)


\* ---------------------------------------------------------------------------
\* An adjustment and its opposite
\* ---------------------------------------------------------------------------

\* The amounts a goal of 10000 holds before the adjustment.
AdjustAmounts == {Lit(0), Lit(1000), Lit(4000), Lit(9000)}

\* The adjustments: those of the three buttons, their opposites, and amounts
\* with a fraction (0.2 and 2000.01).
AdjustDeltas ==
  {Lit(1000), Lit(-1000), Lit(5000), Lit(-5000),
   parseFloat(20), Neg(parseFloat(20)), parseFloat(200001), Neg(parseFloat(200001))}

\* A number without a fraction.
IsWhole(x) == IsNum(x) /\ \A b \in x.bits : b >= 0

\* The first view has fetched the stored goal and no request is in flight;
\* the second view has fetched it too and is left alone, so its list keeps
\* the goal as it was before the adjustment.
InitAdjust ==
  /\ now = At(2024, 6, 2, 12)
  /\ tz = 0
  /\ pc = "props"
  /\ transactions = <<>>
  /\ summary = NoSummary
  /\ budgets = <<>>
  /\ budgetAnalysis = <<>>
  /\ \E amount \in AdjustAmounts :
       dbGoals = <<[NewGoal(1, "car", Lit(10000)) EXCEPT !.current_amount = amount]>>
  /\ nextId = 2
  /\ goals = [v \in Views |-> dbGoals]
  /\ inflight = EmptyBag
  /\ clicks = 0
  /\ progress = [v \in Views |-> <<>>]
  /\ deadlines = [v \in Views |-> <<>>]
  /\ adjustBy \in AdjustDeltas
  /\ NoCharts
  /\ NoBudgetStore

\* updateGoalProgress(goal.id, D), and once its refetch has replaced the
\* view's list, updateGoalProgress(goal.id, -D); each runs to its end.
NextAdjust ==
  \/ clicks = 0 /\ updateGoalProgress("tab1", 1, adjustBy)
  \/ clicks = 1 /\ inflight = EmptyBag /\ updateGoalProgress("tab1", 1, Neg(adjustBy))
  \/ \E h \in Waiting : StoreUpdate(h)
  \/ \E h \in Waiting : StoreSelect(h)
  \/ \E h \in Waiting : setGoals(h)

SpecAdjust == InitAdjust /\ [][NextAdjust]_vars

\* Both adjustments have been made and the view's list shows their result.
Reverted == clicks = 2 /\ inflight = EmptyBag

ZeroBudget == Budget("food", Lit(0), "monthly", 20240501, 20240531)

ZeroBudgetLists == {<<ZeroBudget>>, <<ZeroBudget, FoodBudget>>}

ZeroTx ==
  { Tx(20240501, "food", Lit(80), "expense"),
    Tx(20240531, "food", Lit(20), "expense"),
    Tx(20240512, "rent", Lit(40), "expense") }

\* Goals whose target_amount is 0, at 0 and above it.
ZeroGoals ==
  {[NewGoal(1, "car", Lit(0)) EXCEPT !.current_amount = amount] : amount \in {Lit(0), Lit(1000)}}

InitZero ==
  /\ now = At(2024, 6, 2, 12)
  /\ tz = 0
  /\ pc = "props"
  /\ transactions \in {l \in ListsUpTo(ZeroTx, MaxBudgetTx) : DateDescending(l)}
  /\ summary = NoSummary
  /\ budgets \in ZeroBudgetLists
  /\ budgetAnalysis = <<>>
  /\ dbGoals \in {<<g>> : g \in ZeroGoals}
  /\ nextId = 2
  /\ goals = [v \in Views |-> dbGoals]
  /\ inflight = EmptyBag
  /\ clicks = 0
  /\ progress = [v \in Views |-> <<>>]
  /\ deadlines = [v \in Views |-> <<>>]
  /\ adjustBy = Lit(0)
  /\ NoCharts
  /\ NoBudgetStore

NextZero ==
  \/ RenderBudgets
  \/ \E v \in Views : RenderGoals(v)

SpecZero == InitZero /\ [][NextZero]_vars

\* C13: a rendered budget whose limit_amount is 0 has percentage 0 and a
\* rendered goal whose target_amount is 0 has progress 0; no rendered
\* percentage or progress is NaN or infinite.
C13_ZeroGivesZero ==
  /\ \A i \in DOMAIN budgetAnalysis :
       /\ IsNum(budgetAnalysis[i].percentage)
       /\ budgets[i].limit_amount = Lit(0) => budgetAnalysis[i].percentage = Lit(0)
  /\ \A v \in Views : \A i \in DOMAIN progress[v] :
       /\ IsNum(progress[v][i])
       /\ goals[v][i].target_amount = Lit(0) => progress[v][i] = Lit(0)


\* ---------------------------------------------------------------------------
\* The budget store and BudgetManager
\* ---------------------------------------------------------------------------

\* The number, counted from 2024-01-01, of the local calendar day of an instant.
LocalDay(date, zone) == (date + zone) \div 24

\* date.getDay(): 0 for Sunday to 6 for Saturday (2024-01-01 was a Monday).
getDay(date, zone) == (LocalDay(date, zone) + 1) % 7

\* date-fns startOfMonth(date): local midnight of the first day of the month.
startOfMonth(date, zone) ==
  LET day == FormatDay(date, zone)
  IN  At(day \div 10000, (day \div 100) % 100, 1, 0) - zone

\* date-fns endOfMonth(date): the last instant (here hour) of the month's
\* last day.
endOfMonth(date, zone) ==
  LET day == FormatDay(date, zone)
      year == day \div 10000
      month == (day \div 100) % 100
  IN  At(year, month, DaysInMonth(year, month), 23) - zone

\* A faulty startOfWeek that takes every week to start on Sunday.
startOfWeekSunday(date, zone, weekStartsOn) ==
  startOfDay(date, zone) - 24 * getDay(date, zone)

\* date-fns startOfWeek(date, { weekStartsOn }).
startOfWeek(date, zone, weekStartsOn) ==
  LET day == getDay(date, zone)
      diff == (IF day < weekStartsOn THEN 7 ELSE 0) + day - weekStartsOn
  IN  startOfDay(date, zone) - 24 * diff

\* date-fns endOfWeek(date, { weekStartsOn }).
endOfWeek(date, zone, weekStartsOn) ==
  LET day == getDay(date, zone)
      diff == (IF day < weekStartsOn THEN -7 ELSE 0) + 6 - (day - weekStartsOn)
  IN  startOfDay(date, zone) + 24 * diff + 23

MaxBudgetClicks == 2

\* A row of table budgets as the views read it.
BudgetRow(id, category, limit, period, start, end) ==
  [id |-> id, category |-> category, limit_amount |-> limit, period |-> period,
   start_date |-> start, end_date |-> end]

\* A handler of BudgetManager waiting at an await: its operation, the await
\* it waits at ("write", "fetch", or "apply" with the data fetched), and the
\* row or the id it sent.
BudgetCall(op, stage, row, budgetId, data) ==
  [op |-> op, stage |-> stage, row |-> row, budgetId |-> budgetId, data |-> data]

NoRow == BudgetRow(0, "", Lit(0), "", 0, 0)

\* The button of the add form is disabled while loading is true, from
\* setLoading(true) to the finally of addBudget.
loading == \E h \in Waiting : h.op = "addBudget"

\* The text of the form's fields: <<>> for an empty field; a limit is given
\* in hundredths.
Categories == {<<>>, <<"food">>, <<"rent">>}

LimitAmounts == {<<>>, <<0>>, <<10000>>}

Periods == {"monthly", "weekly"}

\* What fetchBudgets asks for: the rows, newest first.
NewestBudgetsFirst(rows) == [i \in 1 .. Len(rows) |-> rows[Len(rows) + 1 - i]]

\* A click on the add form's button: addBudget up to its first await, or to
\* its end when a field is empty.
addBudget(category, limitAmount, period) ==
  /\ clicks < MaxBudgetClicks
  /\ clicks' = clicks + 1
  /\ ~loading
  /\ IF category = <<>> \/ limitAmount = <<>>
     THEN /\ toast' = Toast("fill in the fields", "")
          /\ UNCHANGED inflight
     ELSE LET startDate == IF period = "monthly" THEN startOfMonth(now, tz)
                           ELSE startOfWeek(now, tz, 1)
              endDate == IF period = "monthly" THEN endOfMonth(now, tz)
                         ELSE endOfWeek(now, tz, 1)
              row == BudgetRow(0, category[1], parseFloat(limitAmount[1]), period,
                               FormatDay(startDate, tz), FormatDay(endDate, tz))
          IN  /\ Start(BudgetCall("addBudget", "write", row, 0, <<>>))
              /\ UNCHANGED toast
  /\ UNCHANGED <<now, tz, appVars, policyVars, pc, trackerVars, chartVars, dbGoals, nextId, goals, progress,
                 deadlines, adjustBy, dbBudgets>>

\* A click that confirms the deletion of a listed budget: deleteBudget up to
\* its first await.
deleteBudget(budgetId) ==
  /\ clicks < MaxBudgetClicks
  /\ clicks' = clicks + 1
  /\ \E i \in DOMAIN budgets : budgets[i].id = budgetId
  /\ Start(BudgetCall("deleteBudget", "write", NoRow, budgetId, <<>>))
  /\ UNCHANGED <<now, tz, appVars, policyVars, pc, trackerVars, chartVars, dbGoals, nextId, goals, progress,
                 deadlines, adjustBy, storeVars>>

\* UNIQUE(user_id, category, period, start_date), for the one user's rows.
Duplicates(row, rows) ==
  \E i \in DOMAIN rows :
    /\ rows[i].category = row.category
    /\ rows[i].period = row.period
    /\ rows[i].start_date = row.start_date

\* A faulty store whose table has no UNIQUE constraint.
BudgetInsertNotUnique(h) ==
  /\ h.op = "addBudget" /\ h.stage = "write"
  /\ IF FGreater(h.row.limit_amount, Lit(0))
     THEN /\ dbBudgets' = Append(dbBudgets, [h.row EXCEPT !.id = nextId])
          /\ nextId' = nextId + 1
          /\ Advance(h, [h EXCEPT !.stage = "fetch"])
          /\ UNCHANGED toast
     ELSE /\ toast' = Toast("could not add the budget", "check")
          /\ Finish(h)
          /\ UNCHANGED <<dbBudgets, nextId>>
  /\ UNCHANGED <<now, tz, appVars, policyVars, pc, trackerVars, chartVars, dbGoals, goals, clicks, progress,
                 deadlines, adjustBy>>

\* The store executes the insert of addBudget.  A row violating
\* CHECK (limit_amount > 0) or the UNIQUE constraint is rejected and the
\* handler ends in its catch and finally; otherwise the handler goes on to
\* await fetchBudgets().
BudgetInsert(h) ==
  /\ h.op = "addBudget" /\ h.stage = "write"
  /\ IF FGreater(h.row.limit_amount, Lit(0)) /\ ~Duplicates(h.row, dbBudgets)
     THEN /\ dbBudgets' = Append(dbBudgets, [h.row EXCEPT !.id = nextId])
          /\ nextId' = nextId + 1
          /\ Advance(h, [h EXCEPT !.stage = "fetch"])
          /\ UNCHANGED toast
     ELSE /\ toast' = Toast("could not add the budget",
                            IF FGreater(h.row.limit_amount, Lit(0)) THEN "unique" ELSE "check")
          /\ Finish(h)
          /\ UNCHANGED <<dbBudgets, nextId>>
  /\ UNCHANGED <<now, tz, appVars, policyVars, pc, trackerVars, chartVars, dbGoals, goals, clicks, progress,
                 deadlines, adjustBy>>

\* The store executes the delete of deleteBudget.
BudgetDelete(h) ==
  /\ h.op = "deleteBudget" /\ h.stage = "write"
  /\ dbBudgets' = SelectSeq(dbBudgets, LAMBDA row : row.id # h.budgetId)
  /\ Advance(h, [h EXCEPT !.stage = "fetch"])
  /\ UNCHANGED <<now, tz, appVars, policyVars, pc, trackerVars, chartVars, dbGoals, nextId, goals, clicks,
                 progress, deadlines, adjustBy, toast>>

\* The store executes the select of fetchBudgets.
BudgetSelect(h) ==
  /\ h.stage = "fetch"
  /\ Advance(h, [h EXCEPT !.stage = "apply", !.data = NewestBudgetsFirst(dbBudgets)])
  /\ UNCHANGED <<now, tz, appVars, policyVars, pc, trackerVars, chartVars, dbGoals, nextId, goals, clicks,
                 progress, deadlines, adjustBy, storeVars>>

\* setBudgets(data) and the render it causes, which evaluates the
\* budgetAnalysis memo; then the rest of the handler: its toast (and the
\* finally of addBudget, which ends loading).
setBudgets(h) ==
  /\ h.stage = "apply"
  /\ budgets' = h.data
  /\ budgetAnalysis' = ComputeBudgetAnalysis(h.data, transactions)
  /\ toast' = IF h.op = "addBudget" THEN Toast("budget added", "")
              ELSE IF h.op = "deleteBudget" THEN Toast("budget deleted", "")
              ELSE toast
  /\ Finish(h)
  /\ UNCHANGED <<now, tz, appVars, policyVars, pc, transactions, summary, chartVars, dbGoals, nextId, goals,
                 clicks, progress, deadlines, adjustBy, dbBudgets>>

\* The instants at which the page is used, in order: Friday 2024-05-31 22:00Z
\* (Saturday 1 June in zone +3), Sunday 2024-06-02 22:00Z (Monday 3 June in
\* zone +3) and Monday 2024-07-01 12:00Z.
BudgetClocks == <<At(2024, 5, 31, 22), At(2024, 6, 2, 22), At(2024, 7, 1, 12)>>

\* Time passes.  No handler reads the clock after its first await, so the
\* clock is moved while no handler waits.
Tick ==
  /\ inflight = EmptyBag
  /\ \E i \in 1 .. Len(BudgetClocks) - 1 :
       now = BudgetClocks[i] /\ now' = BudgetClocks[i + 1]
  /\ UNCHANGED <<tz, pc, trackerVars, goalVars, chartVars, storeVars, policyVars, appVars>>

\* The transactions prop FinanceTracker passes, newest first.
BudgetStoreTx ==
  { <<>>,
    <<Tx(20240701, "food", Lit(40), "expense"), Tx(20240603, "food", Lit(20), "expense"),
      Tx(20240531, "food", Lit(80), "expense")>> }

\* A faulty memo whose dependencies are [budgets] alone: a new transactions
\* prop leaves the analysis as it was.
setTransactionsUnobserved(list) ==
  /\ list # transactions
  /\ transactions' = list
  /\ UNCHANGED <<now, tz, appVars, pc, summary, budgets, budgetAnalysis, goalVars, chartVars, storeVars, policyVars>>

\* FinanceTracker passes another transactions prop; the render evaluates the
\* budgetAnalysis memo, whose dependency changed.
setTransactions(list) ==
  /\ list # transactions
  /\ transactions' = list
  /\ budgetAnalysis' = ComputeBudgetAnalysis(budgets, list)
  /\ UNCHANGED <<now, tz, appVars, pc, summary, budgets, goalVars, chartVars, storeVars, policyVars>>

\* useEffect(() => { fetchBudgets() }, []) of the page just opened on an
\* empty table.
InitBudgetStore ==
  /\ now = BudgetClocks[1]
  /\ tz \in Zones
  /\ pc = "props"
  /\ transactions = <<>>
  /\ summary = NoSummary
  /\ budgets = <<>>
  /\ budgetAnalysis = <<>>
  /\ dbGoals = <<>>
  /\ nextId = 1
  /\ goals = <<>>
  /\ inflight = SetToBag({BudgetCall("fetchBudgets", "fetch", NoRow, 0, <<>>)})
  /\ clicks = 0
  /\ progress = <<>>
  /\ deadlines = <<>>
  /\ adjustBy = Lit(0)
  /\ dbBudgets = <<>>
  /\ toast = Toast("", "")
  /\ tableRows = <<>>
  /\ answer = <<>>
  /\ NoCharts

NextBudgetStore ==
  \/ \E category \in Categories, limitAmount \in LimitAmounts, period \in Periods :
       addBudget(category, limitAmount, period)
  \/ \E i \in DOMAIN budgets : deleteBudget(budgets[i].id)
  \/ \E h \in Waiting : BudgetInsert(h)
  \/ \E h \in Waiting : BudgetDelete(h)
  \/ \E h \in Waiting : BudgetSelect(h)
  \/ \E h \in Waiting : setBudgets(h)
  \/ \E list \in BudgetStoreTx : setTransactions(list)
  \/ Tick

SpecBudgetStore == InitBudgetStore /\ [][NextBudgetStore]_vars

(* ------------------------------ claim C14 ------------------------------ *)

\* The row the step adds to the table, if it adds one.
Inserted == Len(dbBudgets') = Len(dbBudgets) + 1

\* C14: the row addBudget stores has, for a monthly budget, the first and the
\* last day of the local calendar month of the creation moment and, for a
\* weekly budget, the Monday and the Sunday of the week containing it; the
\* creation day lies from start_date to end_date; every stored budget has
\* limit_amount > 0.
C14_BudgetRange ==
  /\ [](\A i \in DOMAIN dbBudgets : FGreater(dbBudgets[i].limit_amount, Lit(0)))
  /\ [][Inserted =>
         LET row == dbBudgets'[Len(dbBudgets')]
             n == LocalDay(now, tz)
             today == CivilFrom(2024, n)
             year == today \div 10000
             month == (today \div 100) % 100
         IN  /\ row.period = "monthly" =>
                  /\ row.start_date = year * 10000 + month * 100 + 1
                  /\ row.end_date = year * 10000 + month * 100 + DaysInMonth(year, month)
             /\ row.period = "weekly" =>
                  \E k \in 0 .. 6 :
                    /\ (n - k) % 7 = 0
                    /\ row.start_date = CivilFrom(2024, n - k)
                    /\ row.end_date = CivilFrom(2024, n - k + 6)
             /\ row.start_date <= today /\ today <= row.end_date]_vars

\* In zone +3 a weekly budget made on Monday 3 June (Sunday 22:00Z) and a
\* monthly budget of June are stored.
C14_Witness ==
  /\ tz = 3
  /\ \E i \in DOMAIN dbBudgets :
       /\ dbBudgets[i].period = "weekly"
       /\ dbBudgets[i].start_date = 20240603 /\ dbBudgets[i].end_date = 20240609
  /\ \E i \in DOMAIN dbBudgets :
       /\ dbBudgets[i].period = "monthly"
       /\ dbBudgets[i].start_date = 20240601 /\ dbBudgets[i].end_date = 20240630

(* ------------------------------ claim C15 ------------------------------ *)

\* C15: no two stored budgets share (category, period, start_date); when an
\* addBudget whose row would share them with a stored budget gets its answer
\* from the store, the error toast is shown and the stored budgets, the
\* displayed list and its analysis stay as they were.
C15_NoDuplicateBudget ==
  /\ [](\A i, j \in DOMAIN dbBudgets :
          (/\ dbBudgets[i].category = dbBudgets[j].category
           /\ dbBudgets[i].period = dbBudgets[j].period
           /\ dbBudgets[i].start_date = dbBudgets[j].start_date) => i = j)
  /\ [][\A h \in Waiting :
          (/\ h.op = "addBudget" /\ h.stage = "write"
           /\ Duplicates(h.row, dbBudgets)
           /\ ~BagIn(h, inflight')) =>
            /\ toast'.text = "could not add the budget"
            /\ inflight' = inflight (-) SetToBag({h})
            /\ dbBudgets' = dbBudgets
            /\ budgets' = budgets
            /\ budgetAnalysis' = budgetAnalysis]_vars

\* A second food budget of the same month was refused as a duplicate, and the
\* first is the one stored and displayed.
C15_Witness ==
  /\ toast = Toast("could not add the budget", "unique")
  /\ inflight = EmptyBag
  /\ Len(dbBudgets) = 1
  /\ budgets = dbBudgets

(* ------------------------------ claim C16 ------------------------------ *)

\* C16: a budget that stays stored, and one that stays displayed, keeps its
\* row, start_date and end_date included: steps only add and remove rows; and
\* the spent shown for a budget is the spent of the transactions dated up to
\* its end_date, whenever the analysis was evaluated.
C16_FrozenRange ==
  /\ [][/\ \A i \in DOMAIN dbBudgets : \A j \in DOMAIN dbBudgets' :
            dbBudgets[i].id = dbBudgets'[j].id => dbBudgets[i] = dbBudgets'[j]
        /\ \A i \in DOMAIN budgets : \A j \in DOMAIN budgets' :
            budgets[i].id = budgets'[j].id => budgets[i] = budgets'[j]]_vars
  /\ [](\A i \in DOMAIN budgetAnalysis :
          LET budget == budgetAnalysis[i].budget
              UpToEnd(t) == t.date <= budget.end_date
          IN  /\ budget = budgets[i]
              /\ budgetAnalysis[i].spent =
                   AnalyseBudget(budget, SelectSeq(transactions, UpToEnd)).spent)

\* On 1 July the June food budget is displayed with the expenses of 3 June
\* only, while the list holds a food expense of 1 July.
C16_Witness ==
  /\ now = BudgetClocks[3]
  /\ \E k \in DOMAIN transactions :
       transactions[k].date = 20240701 /\ transactions[k].category = "food"
  /\ \E i \in DOMAIN budgetAnalysis :
       /\ budgetAnalysis[i].budget.category = "food"
       /\ budgetAnalysis[i].budget.end_date = 20240630
       /\ budgetAnalysis[i].spent = Lit(20)

(* ------------------------------ claim C18 ------------------------------ *)

\* C18: at every moment the analysis shown is the analysis of the current
\* budgets and the current transactions, and of nothing else (whatever the
\* clock, the zone and the handlers in flight); the list of budgets changes
\* only when a fetch's rows are set and the transactions only when the prop
\* changes, never by an evaluation of the analysis.
C18_AnalysisOfCurrentInputs ==
  /\ [](budgetAnalysis = ComputeBudgetAnalysis(budgets, transactions))
  /\ [][/\ budgets' # budgets =>
            \E h \in Waiting : h.stage = "apply" /\ budgets' = h.data
        /\ transactions' # transactions =>
            budgets' = budgets /\ transactions' \in BudgetStoreTx]_vars

\* The May food budget is shown with the 80 spent on 31 May, after the
\* transactions arrived.
C18_Witness ==
  /\ Len(budgets) = 1 /\ Len(transactions) = 3
  /\ Len(budgetAnalysis) = 1
  /\ budgetAnalysis[1].budget.start_date = 20240501
  /\ budgetAnalysis[1].spent = Lit(80)


\* ---------------------------------------------------------------------------
\* Row-level security
\* ---------------------------------------------------------------------------

MaxPolicyRows == 1

\* auth.uid() of a request without a session.
Null == "null"

\* Two users and an administrator; a request is sent by one of them or
\* without a session.
Users == {"ann", "bob", "root"}

Requesters == Users \cup {Null}

\* Table user_roles: every user has role 'user' (handle_new_user_role), and
\* root is an admin too.
UserRoles == {<<u, "user">> : u \in Users} \cup {<<"root", "admin">>}

has_role(user, role) == <<user, role>> \in UserRoles

Tables == {"financial_goals", "budgets", "user_sessions"}

\* auth.uid() = user_id, which is not true when auth.uid() is null.
Own(uid, row) == uid # Null /\ uid = row.user_id

\* Faulty policies that let an admin view the rows of every table.
SelectPolicyAdminViewsAll(table, uid, row) ==
  uid # Null /\ (uid = row.user_id \/ has_role(uid, "admin"))

\* The FOR SELECT policies of a table, any of which admits the row.
SelectPolicy(table, uid, row) ==
  IF table = "user_sessions"
  THEN uid # Null /\ (uid = row.user_id \/ has_role(uid, "admin"))
  ELSE Own(uid, row)

\* The FOR INSERT policy: WITH CHECK (auth.uid() = user_id).
InsertPolicy(table, uid, row) == Own(uid, row)

\* The FOR UPDATE policy: USING (auth.uid() = user_id), which is the check of
\* the new row as well.
UpdatePolicy(table, uid, row) == Own(uid, row)

\* The FOR DELETE policy; user_sessions has none.
DeletePolicy(table, uid, row) == table # "user_sessions" /\ Own(uid, row)

PolicyRow(id, owner, version) == [id |-> id, user_id |-> owner, version |-> version]

Answer(uid, op, rows) == [by |-> uid, op |-> op, rows |-> rows]

\* One of the three tables, empty, and no request sent yet.
InitPolicies ==
  /\ now = At(2024, 6, 2, 12)
  /\ tz = 0
  /\ pc = "props"
  /\ transactions = <<>>
  /\ summary = NoSummary
  /\ budgets = <<>>
  /\ budgetAnalysis = <<>>
  /\ NoGoals
  /\ NoCharts
  /\ dbBudgets = <<>>
  /\ toast = Toast("", "")
  /\ \E table \in Tables : tableRows = [table |-> table, rows |-> {}]
  /\ answer = Answer(Null, "", {})

PolicyFrame == UNCHANGED <<now, tz, appVars, pc, trackerVars, goalVars, chartVars, storeVars>>

\* select * from the table, sent with uid's session.
SelectAs(uid) ==
  /\ answer' = Answer(uid, "select",
                      {row \in tableRows.rows : SelectPolicy(tableRows.table, uid, row)})
  /\ UNCHANGED tableRows
  /\ PolicyFrame

\* insert of a row with user_id = owner, sent with uid's session: the row is
\* stored if the policy admits it, and the request fails otherwise.
InsertAs(uid, owner, op) ==
  /\ Cardinality(tableRows.rows) < MaxPolicyRows
  /\ LET id == CHOOSE i \in 1 .. MaxPolicyRows : \A row \in tableRows.rows : row.id # i
         new == PolicyRow(id, owner, 0)
     IN  IF InsertPolicy(tableRows.table, uid, new)
         THEN /\ tableRows' = [tableRows EXCEPT !.rows = @ \cup {new}]
              /\ answer' = Answer(uid, op, {new})
         ELSE /\ answer' = Answer(uid, op, {})
              /\ UNCHANGED tableRows
  /\ PolicyFrame

\* The inserts of the views (addGoal, addBudget, logLogin): user_id: user.id,
\* with user the user of the session.
ViewInsert(user) == InsertAs(user, user, "view insert")

\* update ... set user_id = owner, (other columns) where id = id, sent with
\* uid's session: it reaches the rows the policy admits, and fails if a new
\* row does not pass the policy.
UpdateAs(uid, id, owner) ==
  /\ LET old == {row \in tableRows.rows :
                   row.id = id /\ UpdatePolicy(tableRows.table, uid, row)}
         New(row) == PolicyRow(row.id, owner, 1 - row.version)
     IN  IF \A row \in old : UpdatePolicy(tableRows.table, uid, New(row))
         THEN /\ tableRows' = [tableRows EXCEPT !.rows = (@ \ old) \cup {New(row) : row \in old}]
              /\ answer' = Answer(uid, "update", {New(row) : row \in old})
         ELSE /\ answer' = Answer(uid, "update", {})
              /\ UNCHANGED tableRows
  /\ PolicyFrame

\* delete ... where id = id, sent with uid's session.
DeleteAs(uid, id) ==
  /\ LET old == {row \in tableRows.rows :
                   row.id = id /\ DeletePolicy(tableRows.table, uid, row)}
     IN  /\ tableRows' = [tableRows EXCEPT !.rows = @ \ old]
         /\ answer' = Answer(uid, "delete", old)
  /\ PolicyFrame

NextPolicies ==
  \/ \E uid \in Requesters : SelectAs(uid)
  \/ \E uid \in Requesters, owner \in Users : InsertAs(uid, owner, "insert")
  \/ \E user \in Users : ViewInsert(user)
  \/ \E uid \in Requesters, id \in 1 .. MaxPolicyRows, owner \in Users : UpdateAs(uid, id, owner)
  \/ \E uid \in Requesters, id \in 1 .. MaxPolicyRows : DeleteAs(uid, id)

SpecPolicies == InitPolicies /\ [][NextPolicies]_vars

(* ------------------------------ claim C20 ------------------------------ *)

\* C20: a request sent with user u's session adds, changes and removes only
\* rows whose user_id is u, in all three tables; a select on goals or budgets
\* returns exactly the rows whose user_id is u, for an admin too; a select on
\* user_sessions returns exactly the rows whose user_id is u, or all rows when
\* u is an admin, and no request removes a session; an insert sent by a view
\* carries the user's own id and is stored.
C20_RowLevelSecurity ==
  [][LET table == tableRows.table
         uid == answer'.by
         before == tableRows.rows
         after == tableRows'.rows
         Visible(row) ==
           uid # Null /\ (row.user_id = uid
                          \/ (table = "user_sessions" /\ has_role(uid, "admin")))
     IN  /\ \A row \in (before \ after) \cup (after \ before) : row.user_id = uid
         /\ answer'.op = "select" => answer'.rows = {row \in before : Visible(row)}
         /\ answer'.op # "select" => \A row \in answer'.rows : row.user_id = uid
         /\ table = "user_sessions" =>
              \A row \in before : \E kept \in after : kept.id = row.id
         /\ answer'.op = "view insert" =>
              answer'.rows # {} /\ answer'.rows \subseteq after]_vars

\* The admin has read user_sessions and got ann's session.
C20_Witness ==
  /\ tableRows.table = "user_sessions"
  /\ answer.op = "select" /\ answer.by = "root"
  /\ \E row \in answer.rows : row.user_id = "ann"


\* ---------------------------------------------------------------------------
\* One goals view on its own
\* ---------------------------------------------------------------------------

\* The view the user works in; the other one is open and is left alone.
ActiveView == "tab1"

\* The clicks of one view, several of them before the answers to the earlier
\* ones arrive, and the store's answers in any order.
NextOneView ==
  \/ \E title \in GoalTitles, target \in GoalTargets : addGoal(ActiveView, title, target)
  \/ \E d \in Deltas : \E i \in DOMAIN goals[ActiveView] :
       updateGoalProgress(ActiveView, goals[ActiveView][i].id, d)
  \/ \E i \in DOMAIN goals[ActiveView] : deleteGoal(ActiveView, goals[ActiveView][i].id)
  \/ \E h \in Waiting : StoreInsert(h)
  \/ \E h \in Waiting : StoreUpdate(h)
  \/ \E h \in Waiting : StoreDelete(h)
  \/ \E h \in Waiting : StoreSelect(h)
  \/ \E h \in Waiting : setGoals(h)

SpecOneView == InitGoals /\ [][NextOneView]_vars

(* ------------------------------ claim C21 ------------------------------ *)

\* C21: once every operation of the view has completed, the list the view
\* holds is the list of the stored goals, newest first.
C21_ListIsStore ==
  (\A h \in Waiting : h.view # ActiveView) =>
    goals[ActiveView] = NewestFirst(dbGoals)

\* ---------------------------------------------------------------------------
\* Forms and writes.  The handlers that write to the store have one shape:
\* validate the form, await the write, throw on its error, refetch, toast;
\* catch: a destructive toast; finally (the add handlers of the three finance
\* components): setLoading(false).  A run exercises one handler; the store is
\* the number of writes it has committed, and a list is the store it was read
\* from.
\* ---------------------------------------------------------------------------

\* The submissions of one run.
MaxSubmits == 2

WriteOps ==
  {"addTransaction", "deleteTransaction", "deleteAllTransactions",
   "addGoal", "updateGoalProgress", "deleteGoal",
   "addBudget", "deleteBudget",
   "addAnalyticsSetting", "toggleSetting"}

\* The fields the handler's first statement requires.
Required(op) ==
  CASE op = "addTransaction" -> {"amount", "category", "selectedDate"}
    [] op = "addGoal" -> {"title", "targetAmount"}
    [] op = "addBudget" -> {"category", "limitAmount"}
    [] op = "addAnalyticsSetting" -> {"name", "tracking_id"}
    [] OTHER -> {}

\* The required fields the handler empties after a successful write.
Emptied(op) ==
  CASE op = "addTransaction" -> {"amount", "category"}
    [] OTHER -> Required(op)

\* The required fields a mounted component holds: selectedDate is new Date().
InitialForm(op) == IF op = "addTransaction" THEN {"selectedDate"} ELSE {}

\* The handlers with setLoading(true) ... finally setLoading(false); their
\* button is disabled={loading}.
SetsLoading(op) == op \in {"addTransaction", "addGoal", "addBudget"}

\* AdminPanel calls fetchData() without await; the others await their refetch.
AwaitsRefetch(op) == op \notin {"addAnalyticsSetting", "toggleSetting"}

\* toggleSetting shows no toast on success.
ToastsSuccess(op) == op # "toggleSetting"

\* A call of the handler waiting at an await.
Call(id, op, stage, data) == [id |-> id, op |-> op, stage |-> stage, data |-> data]

Notice(id, kind) == [id |-> id, kind |-> kind]

\* How often x occurs in the sequence s.
Count(s, x) == Cardinality({i \in DOMAIN s : s[i] = x})

InitPage ==
  /\ now = At(2024, 6, 2, 12)
  /\ tz = 0
  /\ pc = "props"
  /\ transactions = <<>>
  /\ summary = NoSummary
  /\ budgets = <<>>
  /\ budgetAnalysis = <<>>
  /\ NoGoals
  /\ NoBudgetStore
  /\ categoryChart = <<>>
  /\ trendChart = <<>>
  /\ tracking = <<>>
  /\ index = <<>>
  /\ \E op \in WriteOps :
       page = [op |-> op, form |-> InitialForm(op), loading |-> FALSE,
               list |-> 0, store |-> 0,
               writes |-> <<>>, selects |-> <<>>, sets |-> <<>>, toasts |-> <<>>,
               failed |-> {}, invalid |-> {}]

PageFrame ==
  UNCHANGED <<now, tz, pc, trackerVars, chartVars, storeVars, policyVars, tracking, index,
              dbGoals, nextId, goals, progress, deadlines, adjustBy>>

\* The user fills in or empties fields of the form.
Fill(fields) ==
  /\ Required(page.op) # {}
  /\ fields # page.form
  /\ page' = [page EXCEPT !.form = fields]
  /\ UNCHANGED <<inflight, clicks>>
  /\ PageFrame

\* A handler without the validation: what submitting does if the empty fields
\* are not looked at.
SubmitUnvalidated ==
  /\ clicks < MaxSubmits
  /\ ~(SetsLoading(page.op) /\ page.loading)
  /\ clicks' = clicks + 1
  /\ page' = [page EXCEPT !.loading = @ \/ SetsLoading(page.op)]
  /\ Start(Call(clicks + 1, page.op, "write", 0))
  /\ PageFrame

\* The handler up to its first await: the validation, setLoading(true), and
\* the write sent.
Submit ==
  /\ clicks < MaxSubmits
  /\ ~(SetsLoading(page.op) /\ page.loading)
  /\ clicks' = clicks + 1
  /\ IF Required(page.op) # {} /\ page.form # Required(page.op)
       THEN /\ page' = [page EXCEPT
                          !.toasts = Append(@, Notice(clicks + 1, "error")),
                          !.invalid = @ \cup {clicks + 1}]
            /\ UNCHANGED inflight
       ELSE /\ page' = [page EXCEPT !.loading = @ \/ SetsLoading(page.op)]
            /\ Start(Call(clicks + 1, page.op, "write", 0))
  /\ PageFrame

\* The handler after a write the store has committed.
WriteCommits(h) ==
  /\ h.stage = "write"
  /\ Advance(h, Call(h.id, h.op, "fetch", 0))
  /\ page' = [page EXCEPT
                !.writes = Append(@, h.id),
                !.store = @ + 1,
                !.form = IF h.op = "addAnalyticsSetting" THEN @ \ Emptied(h.op) ELSE @,
                !.toasts = IF h.op = "addAnalyticsSetting"
                             THEN Append(@, Notice(h.id, "success")) ELSE @]
  /\ UNCHANGED clicks
  /\ PageFrame

\* The handler after a write the store has rejected or could not be reached
\* for, with a second attempt: what a retrying handler would do.
WriteFailsAndRetries(h) ==
  /\ h.stage = "write"
  /\ Advance(h, Call(h.id, h.op, "write", 1))
  /\ page' = [page EXCEPT
                !.writes = Append(@, h.id),
                !.failed = @ \cup {h.id}]
  /\ UNCHANGED clicks
  /\ PageFrame

\* The handler after a write the store has rejected or could not be reached
\* for: if (error) throw error; catch: toast; finally: setLoading(false).
WriteFails(h) ==
  /\ h.stage = "write"
  /\ Finish(h)
  /\ page' = [page EXCEPT
                !.writes = Append(@, h.id),
                !.failed = @ \cup {h.id},
                !.toasts = Append(@, Notice(h.id, "error")),
                !.loading = @ /\ ~SetsLoading(h.op)]
  /\ UNCHANGED clicks
  /\ PageFrame

\* The store answers the refetch.
Refetch(h) ==
  /\ h.stage = "fetch"
  /\ Advance(h, Call(h.id, h.op, "apply", page.store))
  /\ page' = [page EXCEPT !.selects = Append(@, h.id)]
  /\ UNCHANGED clicks
  /\ PageFrame

\* The refetch sets the list, and a handler that awaited it goes on: the form
\* is emptied, the success toast shown, loading set to false.
ShowList(h) ==
  /\ h.stage = "apply"
  /\ Finish(h)
  /\ page' = [page EXCEPT
                !.list = h.data,
                !.sets = Append(@, h.id),
                !.form = IF AwaitsRefetch(h.op) THEN @ \ Emptied(h.op) ELSE @,
                !.toasts = IF AwaitsRefetch(h.op) /\ ToastsSuccess(h.op)
                             THEN Append(@, Notice(h.id, "success")) ELSE @,
                !.loading = @ /\ ~SetsLoading(h.op)]
  /\ UNCHANGED clicks
  /\ PageFrame

NextPage ==
  \/ \E fields \in SUBSET Required(page.op) : Fill(fields)
  \/ Submit
  \/ \E h \in Waiting : WriteCommits(h)
  \/ \E h \in Waiting : WriteFails(h)
  \/ \E h \in Waiting : Refetch(h)
  \/ \E h \in Waiting : ShowList(h)

SpecPage == InitPage /\ [][NextPage]_vars

(* ------------------------------ claim C22 ------------------------------ *)

\* C22: a call whose write the store failed has made one write attempt, has
\* raised one error toast and no success toast, has issued no refetch and has
\* not set the list, and is over; after it the loading flag of an add handler
\* is false.
C22_FailedWrite ==
  \A id \in page.failed :
    /\ Count(page.writes, id) = 1
    /\ Count(page.toasts, Notice(id, "error")) = 1
    /\ Count(page.toasts, Notice(id, "success")) = 0
    /\ Count(page.selects, id) = 0
    /\ Count(page.sets, id) = 0
    /\ \A h \in Waiting : h.id # id
    /\ (id = clicks) => ~page.loading

C22_Witness ==
  /\ page # <<>>
  /\ SetsLoading(page.op)
  /\ page.failed = {2}
  /\ page.writes = <<1, 2>>
  /\ page.list = 1
  /\ inflight = EmptyBag

(* ------------------------------ claim C30 ------------------------------ *)

\* C30: a submission of addTransaction, addGoal, addBudget or
\* addAnalyticsSetting with a required field empty sends no write, leaves the
\* store, the list and the form fields as they are, and raises one error
\* toast.
C30_MissingField ==
  [][(/\ clicks' = clicks + 1
      /\ Required(page.op) # {}
      /\ page.form # Required(page.op))
     => /\ inflight' = inflight
        /\ page'.writes = page.writes
        /\ page'.store = page.store
        /\ page'.list = page.list
        /\ page'.form = page.form
        /\ page'.toasts = Append(page.toasts, Notice(clicks', "error"))]_vars

C30_Witness ==
  /\ page # <<>>
  /\ page.op = "addAnalyticsSetting"
  /\ page.invalid = {2}
  /\ page.form = {"name"}
  /\ page.store = 1

(* ------------------------------ claim C23 ------------------------------ *)

\* Clicks on the buttons that raise a goal only, from either view, and the
\* store's answers.
NextRaise ==
  \/ \E v \in Views : \E d \in {x \in Deltas : ~FGeq(Lit(0), x)} :
       \E i \in DOMAIN goals[v] : updateGoalProgress(v, goals[v][i].id, d)
  \/ \E h \in Waiting : StoreUpdate(h)
  \/ \E h \in Waiting : StoreSelect(h)
  \/ \E h \in Waiting : setGoals(h)

SpecRaise == InitGoals /\ [][NextRaise]_vars

\* C23: no adjustment is lost: every update of a positive delta that the store
\* executes raises the stored current_amount of its goal by that delta, so
\* that n successful calls raise it by d1 + ... + dn, also when a call was
\* issued from a list older than the previous call's update.
C23_NoLostAdjustment ==
  [][\A h \in Waiting :
       (/\ h.op = "updateGoalProgress" /\ h.stage = "write"
        /\ ~FGeq(Lit(0), h.delta)
        /\ CopiesIn(h, inflight') < CopiesIn(h, inflight)
        /\ HasGoal(dbGoals, h.goalId))
       => FindGoal(dbGoals', h.goalId).current_amount =
            FAdd(FindGoal(dbGoals, h.goalId).current_amount, h.delta)]_vars

(* ------------------------------ claim C28 ------------------------------ *)

\* C28: a stored goal with is_completed = TRUE keeps it for as long as it is
\* stored, whatever view issues adjustments.
C28_CompletionStable ==
  [][\A i \in DOMAIN dbGoals : \A j \in DOMAIN dbGoals' :
       (dbGoals[i].id = dbGoals'[j].id /\ dbGoals[i].is_completed)
         => dbGoals'[j].is_completed]_vars

\* ---------------------------------------------------------------------------
\* The Index page: the auth effect sets user (a new object with every
\* delivery), useUserRole(user) returns roleLoading and isAdmin,
\* useSessionTracking(user) runs its effect when the user object changes, and
\* the page renders the spinner, the auth form, the admin panel or the
\* tracker.  The calls of logLogin and logLogout wait in inflight; the clock
\* advances with every delivery.
\* ---------------------------------------------------------------------------

\* The deliveries of a session by getSession and the auth state listener.
MaxDeliveries == 3

\* The users that sign in.
AuthUsers == {"ann", "root"}

\* session?.user of a delivery: a new object each time.
\* No user is a user without an id; setUser(null) twice is no change.
UserObject(id, n) == IF id = Null THEN [id |-> Null, obj |-> 0] ELSE [id |-> id, obj |-> n]

\* A call of logLogin or logLogout waiting at an await, with what it read
\* before the await.
SessionCall(op, stage, user_id, sessionId, loginTime, at) ==
  [op |-> op, stage |-> stage, user_id |-> user_id, sessionId |-> sessionId,
   loginTime |-> loginTime, at |-> at]

\* A row of user_sessions, with the logout updates it has received and the
\* login time the last of them computed its duration from.
SessionRow(id, user_id, login_time) ==
  [id |-> id, user_id |-> user_id, login_time |-> login_time,
   logouts |-> 0, logout_time |-> 0, session_duration |-> 0, since |-> 0]

\* A page that shows the admin panel to whoever asked for it.
RenderAdminOnRequest(ix) ==
  IF ix.loading \/ ix.roleLoading THEN "spinner"
  ELSE IF ix.user.id = Null THEN "auth"
  ELSE IF ix.showAdmin THEN "admin"
  ELSE "tracker"

\* What Index returns.
Render(ix) ==
  IF ix.loading \/ ix.roleLoading THEN "spinner"
  ELSE IF ix.user.id = Null THEN "auth"
  ELSE IF ix.showAdmin /\ ix.isAdmin THEN "admin"
  ELSE "tracker"

Rendered(ix) == [ix EXCEPT !.view = Render(ix)]

\* if (sessionIdRef.current && loginTimeRef.current) logLogout(): the calls
\* this starts, with the refs t holds, at the instant at.
LogoutIfOpen(t, at) ==
  IF t.sessionIdRef # 0 /\ t.loginTimeRef # 0
    THEN SetToBag({SessionCall("logLogout", "update", Null, t.sessionIdRef, t.loginTimeRef, at)})
    ELSE EmptyBag

InitIndex ==
  /\ now = 1
  /\ tz = 0
  /\ pc = "props"
  /\ transactions = <<>>
  /\ summary = NoSummary
  /\ budgets = <<>>
  /\ budgetAnalysis = <<>>
  /\ NoGoals
  /\ NoBudgetStore
  /\ categoryChart = <<>>
  /\ trendChart = <<>>
  /\ page = <<>>
  /\ tracking = [sessionIdRef |-> 0, loginTimeRef |-> 0, rows |-> <<>>]
  /\ index = [user |-> UserObject(Null, 0), loading |-> TRUE, roleLoading |-> TRUE, isAdmin |-> FALSE,
              showAdmin |-> FALSE, view |-> "spinner", deliveries |-> 0, signIns |-> 0]

IndexFrame ==
  UNCHANGED <<tz, pc, trackerVars, chartVars, storeVars, policyVars, page,
              dbGoals, nextId, goals, clicks, progress, deadlines, adjustBy>>

\* A delivery of the session, or of no session: setUser(session?.user ?? null),
\* setLoading(false), and, when the user has changed, the effect of
\* useSessionTracking: the cleanup of the previous run, then the new run.
Deliver(id) ==
  /\ index.deliveries < MaxDeliveries
  /\ index.user.id # Null => id \in {Null, index.user.id}
  /\ now' = now + 1
  /\ LET user == UserObject(id, index.deliveries + 1)
         changed == user # index.user
         cleanup == IF changed /\ index.user.id # Null
                      THEN LogoutIfOpen(tracking, now') ELSE EmptyBag
         logout == IF changed /\ user.id = Null
                     THEN LogoutIfOpen(tracking, now') ELSE EmptyBag
         login == IF changed /\ user.id # Null
                    THEN SetToBag({SessionCall("logLogin", "ip", id, 0, now', now')})
                    ELSE EmptyBag
     IN  /\ index' = Rendered([index EXCEPT
                        !.user = user,
                        !.loading = FALSE,
                        !.deliveries = @ + 1,
                        !.signIns = IF index.user.id = Null /\ user.id # Null THEN @ + 1 ELSE @])
         /\ tracking' = [tracking EXCEPT
                           !.loginTimeRef = IF changed /\ user.id # Null THEN now' ELSE @]
         /\ inflight' = inflight (+) cleanup (+) logout (+) login
  /\ IndexFrame

\* useUserRole(user) returns other values.
UserRoleReturns(roleLoading, isAdmin) ==
  /\ <<roleLoading, isAdmin>> # <<index.roleLoading, index.isAdmin>>
  /\ index' = Rendered([index EXCEPT !.roleLoading = roleLoading, !.isAdmin = isAdmin])
  /\ UNCHANGED <<now, tracking, inflight>>
  /\ IndexFrame

\* onShowAdmin of the tracker.
ShowAdmin ==
  /\ index.view = "tracker"
  /\ ~index.showAdmin
  /\ index' = Rendered([index EXCEPT !.showAdmin = TRUE])
  /\ UNCHANGED <<now, tracking, inflight>>
  /\ IndexFrame

\* onBack of the admin panel.
Back ==
  /\ index.view = "admin"
  /\ index' = Rendered([index EXCEPT !.showAdmin = FALSE])
  /\ UNCHANGED <<now, tracking, inflight>>
  /\ IndexFrame

\* getClientIP() has answered, with an address or with null; logLogin sends
\* the insert.
ClientIPAnswers(h) ==
  /\ h.op = "logLogin" /\ h.stage = "ip"
  /\ Advance(h, [h EXCEPT !.stage = "insert"])
  /\ UNCHANGED <<now, tracking, index>>
  /\ IndexFrame

\* The store answers logLogin's insert: sessionIdRef.current = data.id, or an
\* error that is logged.
SessionInsert(h, ok) ==
  /\ h.op = "logLogin" /\ h.stage = "insert"
  /\ Finish(h)
  /\ tracking' =
       IF ok
         THEN [tracking EXCEPT
                 !.rows = Append(@, SessionRow(Len(@) + 1, h.user_id, h.loginTime)),
                 !.sessionIdRef = Len(tracking.rows) + 1]
         ELSE tracking
  /\ UNCHANGED <<now, index>>
  /\ IndexFrame

\* The store answers logLogout's update, and finally both refs are set to null.
SessionUpdate(h) ==
  /\ h.op = "logLogout" /\ h.stage = "update"
  /\ Finish(h)
  /\ tracking' =
       [tracking EXCEPT
          !.rows = [i \in DOMAIN @ |->
                      IF @[i].id = h.sessionId
                        THEN [@[i] EXCEPT !.logouts = @ + 1,
                                          !.logout_time = h.at,
                                          !.session_duration = h.at - h.loginTime,
                                          !.since = h.loginTime]
                        ELSE @[i]],
          !.sessionIdRef = 0,
          !.loginTimeRef = 0]
  /\ UNCHANGED <<now, index>>
  /\ IndexFrame

NextIndex ==
  \/ \E id \in AuthUsers \cup {Null} : Deliver(id)
  \/ \E roleLoading, isAdmin \in BOOLEAN : UserRoleReturns(roleLoading, isAdmin)
  \/ ShowAdmin
  \/ Back
  \/ \E h \in Waiting : ClientIPAnswers(h)
  \/ \E h \in Waiting : \E ok \in BOOLEAN : SessionInsert(h, ok)
  \/ \E h \in Waiting : SessionUpdate(h)

SpecIndex == InitIndex /\ [][NextIndex]_vars

(* ------------------------------ claim C24 ------------------------------ *)

\* The logLogout calls that have sent an update for the session and wait for
\* its answer.
LogoutsWaiting(id) ==
  LET calls == {h \in Waiting : h.op = "logLogout" /\ h.sessionId = id}
      RECURSIVE Sum(_)
      Sum(S) == IF S = {} THEN 0
                ELSE LET h == CHOOSE x \in S : TRUE
                     IN  CopiesIn(h, inflight) + Sum(S \ {h})
  IN  Sum(calls)

\* C24: for every session row at most one logout update is ever sent.
C24_OneLogoutPerSession ==
  \A i \in DOMAIN tracking.rows :
    tracking.rows[i].logouts + LogoutsWaiting(tracking.rows[i].id) <= 1

(* ------------------------------ claim C25 ------------------------------ *)

\* C25: no session row stays open after its user has signed out: when the
\* user is signed out and no call of the hook is waiting, so that nothing is
\* left that could still send an update, every row has received its logout.
C25_NoSessionLeftOpen ==
  (index.user.id = Null /\ inflight = EmptyBag) =>
    \A i \in DOMAIN tracking.rows : tracking.rows[i].logouts >= 1

(* ------------------------------ claim C26 ------------------------------ *)

\* C26: a logout update goes to the session whose login time its duration was
\* computed from, and the end of a logLogout leaves the refs alone when they
\* hold a later session's id or login time.
C26_LogoutOfItsSession ==
  /\ [](/\ \A h \in Waiting :
             h.op = "logLogout" =>
               \A i \in DOMAIN tracking.rows :
                 tracking.rows[i].id = h.sessionId =>
                   tracking.rows[i].login_time = h.loginTime
        /\ \A i \in DOMAIN tracking.rows :
             tracking.rows[i].logouts > 0 =>
               /\ tracking.rows[i].since = tracking.rows[i].login_time
               /\ tracking.rows[i].session_duration >= 0)
  /\ [][\A h \in Waiting :
          (h.op = "logLogout" /\ CopiesIn(h, inflight') < CopiesIn(h, inflight)) =>
            /\ tracking.sessionIdRef # h.sessionId =>
                 tracking'.sessionIdRef = tracking.sessionIdRef
            /\ tracking.loginTimeRef # h.loginTime =>
                 tracking'.loginTimeRef = tracking.loginTimeRef]_vars

(* ------------------------------ claim C27 ------------------------------ *)

\* C27: every sign-in creates one session row: there are never more rows than
\* sign-ins, and no row is closed while its user is signed in with the
\* sign-in that created it.
C27_OneRowPerSignIn ==
  /\ Len(tracking.rows) <= index.signIns
  /\ (index.user.id # Null /\ Len(tracking.rows) = index.signIns) =>
       \A i \in DOMAIN tracking.rows :
         i = index.signIns => tracking.rows[i].logouts + LogoutsWaiting(i) = 0

(* ------------------------------ claim C29 ------------------------------ *)

\* C29: the page shows the admin panel only while it has finished loading, a
\* user is signed in, role loading has finished and isAdmin is true, whatever
\* showAdmin an earlier user has left behind.
C29_AdminPanelGuard ==
  index.view = "admin" =>
    /\ ~index.loading /\ ~index.roleLoading
    /\ index.user.id # Null
    /\ index.isAdmin
    /\ index.showAdmin

\* A user for whom isAdmin is false is signed in at the second sign-in, with
\* showAdmin still true, and sees the tracker.
C29_Witness ==
  /\ index # <<>>
  /\ index.signIns = 2
  /\ index.user.id # Null
  /\ index.showAdmin /\ ~index.isAdmin /\ ~index.roleLoading
  /\ index.view = "tracker"


=============================================================================
